---- MODULE Spec2Model ----
(***************************************************************************)
(* Model of the Anvil store of PyCraft (src/Src/anvil.py): a two-sector    *)
(* header (location words, timestamps) followed by payload sectors, a set  *)
(* of free sectors, and the operations open / save_chunk / wipe_chunk /    *)
(* load_chunk / indexes / __del__; of its Metadata and the header words it  *)
(* writes through low.py; and of the NBT containers and codec of           *)
(* src/Src/con.py.                                                         *)
(***************************************************************************)
EXTENDS Integers, Sequences, FiniteSets, TLC

(***************************************************************************)
(* Program constants                                                       *)
(***************************************************************************)
SECTOR_SIZE == 4096

NB_OF_ENTRIES == SECTOR_SIZE \div 4

(***************************************************************************)
(* Bounds of the model                                                     *)
(***************************************************************************)
\* highest slot index the modelled callers use (slots above it stay empty)
MaxIndex == 1
\* highest sector count the modelled file may reach
MaxSectors == 5
\* number of calls in one behaviour
MaxOps == 5
\* number of octets of the two's complement that stands for a Python int
IntOctets == 9
\* highest number of items of a List, and of entries of a Dict built by calls
MaxItems == 2

\* the boxes handed to iterate are MaxSpan wide at most along each axis, but
\* for two that are LongSpan wide along one axis
MaxSpan == 3

LongSpan == 1030

Slots == 0 .. MaxIndex

SectorIds == 2 .. (MaxSectors - 1)

\* The values the callers save, each known by the length in octets of its
\* zlib-compressed encoding: 100 + 5 and 4091 + 5 octets need one sector (the
\* second fills it), 4092 + 5 need two, 1044476 + 5 need 256
CompressedLengths == {100, 4091, 4092, 1044476}

\* a value the encoder rejects
Unencodable == [clen |-> 0]

Values == [clen : CompressedLengths] \cup {Unencodable}

\* results of load_chunk that are not values
None == [clen |-> -1]

Corrupt == [clen |-> -2]

\* content of a sector that holds no part of a payload
Zero == [v |-> None, part |-> -1]

VARIABLES
    opened,        \* an Anvil object exists
    path,          \* Anvil._path of the store, or of the last one: "path" or "none"
    toc,           \* Anvil._toc, restricted to Slots
    free_sectors,  \* Anvil._free_sectors
    nb_sectors,    \* Anvil._nb_sectors
    on_disk,       \* the path names a file of the filesystem
    file,          \* content of that file
    stream,        \* content of the byte stream handed to Anvil.open
    last,          \* the last call, its arguments and its outcome
    expect,        \* per slot, the value of the last save that returned
    calls,         \* per slot, the last save or wipe call since open
    nops,          \* number of calls so far
    metadata,      \* a Metadata object of its own
    header,        \* the two header words of the slot it is written to
    mcall,         \* the last call on that object and its outcome
    D,             \* a Dict
    L,             \* a List
    concall,       \* the last call on the Dict or on the List and its outcome
    buffer,        \* the octets of the flow handed to Reader / Writer
    held,          \* the (kind, name, value) triple in memory, or None
    origin,        \* what the flow or the triple was at first
    codecall,      \* the last call of Reader.load / Writer.save, its outcome
    box,           \* the (nid, but) pair handed to iterator.iterate
    yielded,       \* the positions that the generator has yielded so far
    steps,         \* the strings of a scenario of write_string / read_string
    source,        \* the flow of the scenario is "written" by it or "handed"
    lowflow,       \* the octets of the flow of the scenario
    unread,        \* the octets of that flow after the position of the reads
    values,        \* the strings that read_string has returned
    lowcall        \* the last call of the scenario and its outcome

\* the state of the store
anvil_vars == <<opened, path, toc, free_sectors, nb_sectors, on_disk, file,
                stream, last, expect, calls, nops>>

\* the state of the Metadata object and of its header words
meta_vars == <<metadata, header, mcall>>

\* the state of the two containers
con_vars == <<D, L, concall>>

\* the state of the codec
codec_vars == <<buffer, held, origin, codecall>>

\* the state of the generator of iterator.iterate
iter_vars == <<box, yielded>>

\* the state of a scenario on the strings of low.py
str_vars == <<steps, source, lowflow, unread, values, lowcall>>

\* what the calls on a store leave alone
others == <<meta_vars, con_vars, codec_vars, iter_vars, str_vars>>

vars == <<anvil_vars, others>>

(***************************************************************************)
(* Python integers and struct (low.py): an int is the sequence of the      *)
(* IntOctets octets of its two's complement, most significant first        *)
(***************************************************************************)
RECURSIVE octets_of(_, _)
\* the count low octets of the two's complement of n
octets_of(n, count) ==
    IF count = 0 THEN <<>> ELSE Append(octets_of(n \div 256, count - 1), n % 256)

\* the int n
int(n) == octets_of(n, IntOctets)

\* the octet that extends the sign of a two's complement starting with octet
extension(octet) == IF octet >= 128 THEN 255 ELSE 0

\* struct.unpack of one big-endian signed integer held by the octets o
unpack(o) == [i \in 1 .. (IntOctets - Len(o)) |-> extension(o[1])] \o o

\* -2^(8w-1) <= v < 2^(8w-1), the range of a signed format of w octets
fits(v, w) ==
    \A i \in 1 .. (IntOctets - w) : v[i] = extension(v[IntOctets - w + 1])

\* 0 <= v < 2^(8w)
below_power(v, w) == \A i \in 1 .. (IntOctets - w) : v[i] = 0

\* the w low octets of v
low_octets(v, w) == SubSeq(v, IntOctets - w + 1, IntOctets)

\* struct.pack of one big-endian signed integer of w octets: struct.error
\* when v is out of the range of the format
pack(v, w) ==
    IF fits(v, w) THEN [ok |-> TRUE, octets |-> low_octets(v, w)]
    ELSE [ok |-> FALSE, octets |-> <<>>]

\* low.write_int(flow, value) for a single value
write_int(v) == pack(v, 4)

\* low.read_int(flow) for a single value
read_int(o) == unpack(o)

(***************************************************************************)
(* Metadata                                                                *)
(***************************************************************************)
\* Metadata.__init__ / location.setter
Metadata(loc, timestamp) ==
    [offset |-> (loc \div 256) % 16777216,
     length |-> loc % 256,
     timestamp |-> timestamp]

\* Metadata.location: (offset << 8) | length, length being below 2^8
location(meta) == (meta.offset * 256) + meta.length

\* Metadata.position
position(meta) == meta.offset * SECTOR_SIZE

\* assertion of Metadata.length.setter
length_accepted(length) == 0 <= length /\ length < 256

\* sectors [offset, offset + length) named by a metadata
used_sectors(meta) == meta.offset .. (meta.offset + meta.length - 1)

(***************************************************************************)
(* Metadata on Python ints: the setters with their assertions, and the     *)
(* location word, for offsets and timestamps over their whole range        *)
(***************************************************************************)
\* the fields as Metadata.__init__ sets them before it calls the setters
blank_meta == [offset |-> int(0), length |-> int(0), timestamp |-> int(0)]

\* Metadata.location (getter): (self._offset << 8) | self._length, the length
\* being below 2^8
location_word(m) ==
    SubSeq(m.offset, 2, IntOctets) \o <<m.length[IntOctets]>>

\* Metadata.location (setter): AssertionError outside [0, 2^32)
location_setter(m, loc) ==
    IF below_power(loc, 4)
    THEN [ok |-> TRUE,
          meta |-> [m EXCEPT
                       !.offset = unpack(<<0>> \o SubSeq(loc, IntOctets - 3,
                                                         IntOctets - 1)),
                       !.length = unpack(<<0, loc[IntOctets]>>)]]
    ELSE [ok |-> FALSE, meta |-> m]

\* Metadata.offset (setter): AssertionError outside [2, 2^24)
offset_setter(m, offset) ==
    IF below_power(offset, 3) /\ offset \notin {int(0), int(1)}
    THEN [ok |-> TRUE, meta |-> [m EXCEPT !.offset = offset]]
    ELSE [ok |-> FALSE, meta |-> m]

\* Metadata.length (setter): AssertionError outside [0, 2^8)
length_setter(m, length) ==
    IF below_power(length, 1)
    THEN [ok |-> TRUE, meta |-> [m EXCEPT !.length = length]]
    ELSE [ok |-> FALSE, meta |-> m]

\* Metadata.timestamp (setter): AssertionError outside [0, 2^32)
timestamp_setter(m, timestamp) ==
    IF below_power(timestamp, 4)
    THEN [ok |-> TRUE, meta |-> [m EXCEPT !.timestamp = timestamp]]
    ELSE [ok |-> FALSE, meta |-> m]

\* Metadata.__init__(location, timestamp): the two setters in this order
Metadata_init(loc, timestamp) ==
    LET r == location_setter(blank_meta, loc)
    IN  IF r.ok THEN timestamp_setter(r.meta, timestamp) ELSE r

\* the two words of a slot in a header of zeros
zero_words == [loc |-> <<0, 0, 0, 0>>, ts |-> <<0, 0, 0, 0>>]

\* no call on the Metadata object yet
NoMetaCall == [op |-> "none", ok |-> TRUE, err |-> ""]

(***************************************************************************)
(* Byte flows                                                              *)
(***************************************************************************)
EmptyToc == [i \in Slots |-> Metadata(0, 0)]

EmptyFlow ==
    [size |-> 0,
     loc |-> [i \in Slots |-> 0],
     ts |-> [i \in Slots |-> 0],
     data |-> [s \in SectorIds |-> Zero]]

\* the flow the store reads and writes
flow == IF path = "path" THEN file ELSE stream

\* Anvil._write_meta
write_meta(f, index, meta) ==
    [f EXCEPT !.loc[index] = location(meta), !.ts[index] = meta.timestamp]

\* the previous sectors of the slot are not released
free_used_sectors_kept(free, meta) == free

\* Anvil._free_used_sectors
free_used_sectors(free, meta) == free \cup used_sectors(meta)

(***************************************************************************)
(* load_chunk and indexes                                                  *)
(***************************************************************************)
\* (total_length + _SECTOR_SIZE - 1) // _SECTOR_SIZE with total_length = len + 5
nb_of_needed_sectors(clen) == (clen + 5 + SECTOR_SIZE - 1) \div SECTOR_SIZE

\* the sector holding part j of the payload of value v
Part(v, j) == [v |-> v, part |-> j]

\* sector s as the flow f returns it: zeros past the end of the flow
sector(f, s) == IF s \in SectorIds /\ s < f.size THEN f.data[s] ELSE Zero

\* Anvil.load_chunk on a table of contents t and a flow f: the payload is
\* read from meta.position on, over the size its own header states
load_from(t, f, index) ==
    LET meta == t[index]
        head == sector(f, meta.offset)
    IN  IF meta.length = 0 THEN None
        ELSE IF head.part # 0 THEN Corrupt
        ELSE IF \A j \in 0 .. (nb_of_needed_sectors(head.v.clen) - 1) :
                    sector(f, meta.offset + j) = Part(head.v, j)
             THEN head.v
             ELSE Corrupt

load_chunk(index) == load_from(toc, flow, index)

RECURSIVE indexes_unfiltered(_, _)
\* every index is yielded, whatever the length of its slot
indexes_unfiltered(t, i) ==
    IF i > MaxIndex THEN <<>> ELSE <<i>> \o indexes_unfiltered(t, i + 1)

RECURSIVE indexes_from(_, _)
\* Anvil.indexes: the loop over range(_NB_OF_ENTRIES), from index i on
indexes_from(t, i) ==
    IF i > MaxIndex THEN <<>>
    ELSE IF t[i].length # 0 THEN <<i>> \o indexes_from(t, i + 1)
    ELSE indexes_from(t, i + 1)

indexes == indexes_from(toc, 0)

(***************************************************************************)
(* Anvil.__init__                                                          *)
(***************************************************************************)
RECURSIVE remove_used_discarding(_, _, _)
\* the sectors are taken out of the set when they are in it
remove_used_discarding(f, i, free) ==
    IF i > MaxIndex THEN [ok |-> TRUE, free |-> free]
    ELSE remove_used_discarding(f, i + 1,
             free \ used_sectors(Metadata(f.loc[i], f.ts[i])))

RECURSIVE remove_used(_, _, _)
\* the loop of __init__ over the entries read from the header, from slot i
\* on: set.remove raises KeyError on a sector that is not in the set
remove_used(f, i, free) ==
    IF i > MaxIndex THEN [ok |-> TRUE, free |-> free]
    ELSE LET meta == Metadata(f.loc[i], f.ts[i])
         IN  IF used_sectors(meta) \subseteq free
             THEN remove_used(f, i + 1, free \ used_sectors(meta))
             ELSE [ok |-> FALSE, free |-> free]

\* Anvil.__init__ on a flow f
init_store(f) ==
    IF f.size = 0
    THEN [ok |-> TRUE, nb |-> 2, free |-> {}, toc |-> EmptyToc,
          flow |-> [EmptyFlow EXCEPT !.size = 2]]
    ELSE LET r == remove_used(f, 0, 2 .. (f.size - 1))
         IN  [ok |-> r.ok, nb |-> f.size, free |-> r.free,
              toc |-> [i \in Slots |-> Metadata(f.loc[i], f.ts[i])],
              flow |-> f]

(***************************************************************************)
(* con.py: tags, values, is_accepted and Oracle                            *)
(***************************************************************************)
TAG_NONE == 0

TAG_BYTE == 1

TAG_SHORT == 2

TAG_INT == 3

TAG_LONG == 4

TAG_FLOAT == 5

TAG_DOUBLE == 6

TAG_BYTE_ARRAY == 7

TAG_STRING == 8

TAG_LIST == 9

TAG_COMPOUND == 10

TAG_INT_ARRAY == 11

VALID_TAGS ==
    {TAG_BYTE, TAG_SHORT, TAG_INT, TAG_LONG, TAG_FLOAT, TAG_DOUBLE,
     TAG_STRING, TAG_LIST, TAG_COMPOUND}

\* the kind None of a List, a number that no octet of a flow reads as
NoKind == 256

\* an int, v being the octets of its two's complement
IntValue(v) == [t |-> "int", v |-> v]

\* a float, known by its decimal writing
FloatValue(x) == [t |-> "float", x |-> x]

\* a str, v being the sequence of its code points
StrValue(v) == [t |-> "str", v |-> v]

\* a List with its _kind and its _items
List(kind, items) == [t |-> "List", kind |-> kind, items |-> items]

\* a Dict with its _pairs, in the order of the OrderedDict
Dict(pairs) == [t |-> "Dict", pairs |-> pairs]

\* _DictPair(kind, item) under its key
DictPair(key, kind, item) == [key |-> key, kind |-> kind, item |-> item]

\* is_accepted(kind, value): raised when the kind is none of the nine of the
\* if / elif chain, result otherwise
is_accepted(kind, value) ==
    [raised |-> kind \notin VALID_TAGS,
     result |->
        IF kind = TAG_BYTE THEN value.t = "int" /\ fits(value.v, 1)
        ELSE IF kind = TAG_SHORT THEN value.t = "int" /\ fits(value.v, 2)
        ELSE IF kind = TAG_INT THEN value.t = "int" /\ fits(value.v, 4)
        ELSE IF kind = TAG_LONG THEN value.t = "int" /\ fits(value.v, 8)
        ELSE IF kind = TAG_FLOAT \/ kind = TAG_DOUBLE THEN value.t = "float"
        ELSE IF kind = TAG_STRING THEN value.t = "str"
        ELSE IF kind = TAG_LIST THEN value.t = "List"
        ELSE IF kind = TAG_COMPOUND THEN value.t = "Dict"
        ELSE FALSE]

\* Oracle.default_value(kind), for a kind of VALID_TAGS
default_value(kind) ==
    IF kind \in {TAG_BYTE, TAG_SHORT, TAG_INT, TAG_LONG} THEN IntValue(int(0))
    ELSE IF kind \in {TAG_FLOAT, TAG_DOUBLE} THEN FloatValue("0.0")
    ELSE IF kind = TAG_STRING THEN StrValue(<<>>)
    ELSE IF kind = TAG_LIST THEN List(NoKind, <<>>)
    ELSE Dict(<<>>)

\* Oracle.default_kind(value)
default_kind(value) ==
    IF value.t = "int" THEN TAG_LONG
    ELSE IF value.t = "float" THEN TAG_DOUBLE
    ELSE IF value.t = "str" THEN TAG_STRING
    ELSE IF value.t = "List" THEN TAG_LIST
    ELSE IF value.t = "Dict" THEN TAG_COMPOUND
    ELSE NoKind

(***************************************************************************)
(* con.py: Dict                                                            *)
(***************************************************************************)
\* iter(dict): the keys in the order of the OrderedDict
keys(d) == [n \in 1 .. Len(d.pairs) |-> d.pairs[n].key]

\* key in self._pairs
has_key(d, key) == \E n \in 1 .. Len(d.pairs) : d.pairs[n].key = key

\* the place of the pair of a key that is in the Dict
place(d, key) == CHOOSE n \in 1 .. Len(d.pairs) : d.pairs[n].key = key

\* the pair of a key that the Dict has is taken out and put last
store_pair_moving(d, key, kind, item) ==
    Dict(SelectSeq(d.pairs, LAMBDA pair : pair.key # key)
             \o <<DictPair(key, kind, item)>>)

\* self._pairs[key] = _DictPair(kind, item): an OrderedDict keeps the place
\* of a key it has and puts a new key last
store_pair(d, key, kind, item) ==
    IF has_key(d, key)
    THEN Dict([d.pairs EXCEPT ![place(d, key)] = DictPair(key, kind, item)])
    ELSE Dict(Append(d.pairs, DictPair(key, kind, item)))

\* the outcome of a call on a container: the container as the call leaves it
Done(obj) == [ok |-> TRUE, err |-> "", obj |-> obj]

Raised(err, obj) == [ok |-> FALSE, err |-> err, obj |-> obj]

\* a new key is stored whatever the kind the call declares
Dict_setitem_redeclaring(d, key, value) ==
    Done(store_pair(d, key, default_kind(value), value))

\* Dict.__setitem__(key, value)
Dict_setitem(d, key, value) ==
    IF has_key(d, key)
    THEN LET kind == d.pairs[place(d, key)].kind
             a == is_accepted(kind, value)
         IN  IF a.raised \/ ~a.result THEN Raised("ValueError", d)
             ELSE Done(store_pair(d, key, kind, value))
    ELSE Done(store_pair(d, key, default_kind(value), value))

\* Dict.__delitem__(key)
Dict_delitem(d, key) ==
    IF has_key(d, key)
    THEN Done(Dict(SubSeq(d.pairs, 1, place(d, key) - 1)
                       \o SubSeq(d.pairs, place(d, key) + 1, Len(d.pairs))))
    ELSE Raised("KeyError", d)

\* the value of a key that is in the Dict is replaced by the default one
Dict_set_kind_resetting(d, key, kind) ==
    IF kind \notin VALID_TAGS THEN Raised("ValueError", d)
    ELSE Done(store_pair(d, key, kind, default_value(kind)))

\* Dict.set_kind(key, kind)
Dict_set_kind(d, key, kind) ==
    IF kind \notin VALID_TAGS THEN Raised("ValueError", d)
    ELSE IF has_key(d, key)
    THEN LET item == d.pairs[place(d, key)].item
         IN  IF ~is_accepted(kind, item).result THEN Raised("KeyError", d)
             ELSE Done(store_pair(d, key, kind, item))
    ELSE Done(store_pair(d, key, kind, default_value(kind)))

\* Dict.get_kind(key)
Dict_get_kind(d, key) == d.pairs[place(d, key)].kind

\* Dict.__getitem__(key)
Dict_getitem(d, key) == d.pairs[place(d, key)].item

(***************************************************************************)
(* con.py: List                                                            *)
(***************************************************************************)
\* list.insert(key, value)
inserted(items, key, value) ==
    SubSeq(items, 1, key) \o <<value>> \o SubSeq(items, key + 1, Len(items))

\* the value is inserted whatever the kind of the List
List_insert_unchecked(l, key, value) ==
    LET kind == IF l.kind = NoKind THEN default_kind(value) ELSE l.kind
    IN  Done(List(kind, inserted(l.items, key, value)))

\* List.insert(key, value), for 0 <= key <= len: the kind is set before the
\* value is checked
List_insert(l, key, value) ==
    LET kind == IF l.kind = NoKind THEN default_kind(value) ELSE l.kind
        a == is_accepted(kind, value)
    IN  IF kind = NoKind THEN Raised("KeyError", l)
        ELSE IF a.raised \/ ~a.result
        THEN Raised("ValueError", List(kind, l.items))
        ELSE Done(List(kind, inserted(l.items, key, value)))

\* List.__setitem__(key, value) for an index key >= 0: the kind is set before
\* the value is checked, and the value is checked before list.__setitem__
\* raises IndexError on a key that is not in the list
List_setitem(l, key, value) ==
    LET kind == IF l.kind = NoKind THEN default_kind(value) ELSE l.kind
        a == is_accepted(kind, value)
    IN  IF kind = NoKind THEN Raised("KeyError", l)
        ELSE IF a.raised \/ ~a.result
        THEN Raised("ValueError", List(kind, l.items))
        ELSE IF key >= Len(l.items)
        THEN Raised("IndexError", List(kind, l.items))
        ELSE Done(List(kind, [l.items EXCEPT ![key + 1] = value]))

\* List.__setitem__(slice(i, j), value) for 0 <= i <= j <= len and a list
\* value: value[0] raises IndexError on an empty value when the List has no
\* kind; the for / else checks every val of value
List_setslice(l, i, j, value) ==
    IF l.kind = NoKind /\ value = <<>> THEN Raised("IndexError", l)
    ELSE LET kind == IF l.kind = NoKind THEN default_kind(value[1])
                     ELSE l.kind
         IN  IF kind = NoKind THEN Raised("KeyError", l)
             ELSE IF \E n \in 1 .. Len(value) :
                        \/ is_accepted(kind, value[n]).raised
                        \/ ~is_accepted(kind, value[n]).result
             THEN Raised("ValueError", List(kind, l.items))
             ELSE Done(List(kind, SubSeq(l.items, 1, i) \o value
                                      \o SubSeq(l.items, j + 1, Len(l.items))))

\* List.set_kind(kind): the for / else over the items
List_set_kind(l, kind) ==
    IF Len(l.items) = 0 THEN Done(List(kind, l.items))
    ELSE IF kind \notin VALID_TAGS THEN Raised("ValueError", l)
    ELSE IF \E n \in 1 .. Len(l.items) : ~is_accepted(kind, l.items[n]).result
    THEN Raised("KeyError", l)
    ELSE Done(List(kind, l.items))

\* List.__delitem__(key), for a key of the List
List_delitem(l, key) ==
    Done(List(l.kind, SubSeq(l.items, 1, key - 1)
                          \o SubSeq(l.items, key + 1, Len(l.items))))

\* no call on a container yet
NoConCall ==
    [op |-> "none", key |-> <<>>, kind |-> NoKind, value |-> IntValue(int(0)),
     ok |-> TRUE, err |-> ""]

(***************************************************************************)
(* low.py on a flow of octets: reads from position p of the octets b       *)
(***************************************************************************)
\* a read that returned v and left the flow at position p
Read(v, p) == [ok |-> TRUE, err |-> "", v |-> v, p |-> p]

\* a read that raised
ReadFailed(err) == [ok |-> FALSE, err |-> err, v |-> <<>>, p |-> 0]

\* the number an int stands for, when it has 3 octets at most; a count beyond
\* that is more than any flow of the model holds, and stands as 2^23
number(v) ==
    IF fits(v, 3)
    THEN LET o == low_octets(v, 3)
             u == (o[1] * 65536) + (o[2] * 256) + o[3]
         IN  IF o[1] >= 128 THEN u - 16777216 ELSE u
    ELSE IF v[1] >= 128 THEN -8388608 ELSE 8388608

\* read_struct(flow, fmt) for one signed integer of w octets: struct.error
\* when flow.read returns fewer octets
read_struct(b, p, w) ==
    IF p + w - 1 <= Len(b)
    THEN Read(unpack(SubSeq(b, p, p + w - 1)), p + w)
    ELSE ReadFailed("struct.error")

read_byte(b, p) == read_struct(b, p, 1)

read_short(b, p) == read_struct(b, p, 2)

read_long(b, p) == read_struct(b, p, 8)

\* the floats of the model: x is the decimal writing of the float, d the
\* octets struct.pack(">d", x) gives, f those of struct.pack(">f", x), and
\* single tells that struct.unpack(">f", f) is x: 3.7 is not a 32-bit float
\* and is packed as 3.700000047683716
FLOATS ==
    {[x |-> "0.0", single |-> TRUE, f |-> <<0, 0, 0, 0>>,
      d |-> <<0, 0, 0, 0, 0, 0, 0, 0>>],
     [x |-> "3.5", single |-> TRUE, f |-> <<64, 96, 0, 0>>,
      d |-> <<64, 12, 0, 0, 0, 0, 0, 0>>],
     [x |-> "3.7", single |-> FALSE, f |-> <<64, 108, 204, 205>>,
      d |-> <<64, 13, 153, 153, 153, 153, 153, 154>>],
     [x |-> "3.700000047683716", single |-> TRUE, f |-> <<64, 108, 204, 205>>,
      d |-> <<64, 13, 153, 153, 160, 0, 0, 0>>]}

\* low.read_float
read_float(b, p) ==
    IF p + 3 > Len(b) THEN ReadFailed("struct.error")
    ELSE IF \E r \in FLOATS : r.single /\ r.f = SubSeq(b, p, p + 3)
    THEN Read((CHOOSE r \in FLOATS : r.single /\ r.f = SubSeq(b, p, p + 3)).x,
              p + 4)
    ELSE ReadFailed("no float of the model")

\* low.read_double
read_double(b, p) ==
    IF p + 7 > Len(b) THEN ReadFailed("struct.error")
    ELSE IF \E r \in FLOATS : r.d = SubSeq(b, p, p + 7)
    THEN Read((CHOOSE r \in FLOATS : r.d = SubSeq(b, p, p + 7)).x, p + 8)
    ELSE ReadFailed("no float of the model")

RECURSIVE decode(_)
\* bytes.decode("utf-8"), for code points below 2048: [ok, v]
decode(o) ==
    IF o = <<>> THEN [ok |-> TRUE, v |-> <<>>]
    ELSE IF o[1] < 128
    THEN LET r == decode(Tail(o))
         IN  [ok |-> r.ok, v |-> <<o[1]>> \o r.v]
    ELSE IF o[1] >= 194 /\ o[1] < 224 /\ Len(o) >= 2 /\ o[2] \in 128 .. 191
    THEN LET r == decode(Tail(Tail(o)))
         IN  [ok |-> r.ok, v |-> <<((o[1] - 192) * 64) + (o[2] - 128)>> \o r.v]
    ELSE [ok |-> FALSE, v |-> <<>>]

\* flow.read(n): the n octets from p on, fewer at the end of the flow, and
\* all that is left when n is negative
flow_read(b, p, n) ==
    IF n < 0 \/ p + n - 1 > Len(b) THEN SubSeq(b, p, Len(b))
    ELSE SubSeq(b, p, p + n - 1)

\* low.read_string: the length is read as a signed short
read_string(b, p) ==
    LET length == read_short(b, p)
        raw == flow_read(b, length.p, number(length.v))
    IN  IF ~length.ok THEN length
        ELSE IF ~decode(raw).ok THEN ReadFailed("UnicodeDecodeError")
        ELSE Read(decode(raw).v, length.p + Len(raw))

RECURSIVE read_array(_, _, _, _)
\* the count integers of w octets each from p on, as int values
read_array(b, p, w, count) ==
    IF count = 0 THEN <<>>
    ELSE <<IntValue(unpack(SubSeq(b, p, p + w - 1)))>>
             \o read_array(b, p + w, w, count - 1)

\* low.read_byte_array (w = 1) and low.read_int_array (w = 4): read_int of
\* the length, then read_struct with the format ">{length}b" or ">{length}l",
\* which struct rejects when the length is negative
read_int_array(b, p, w) ==
    LET length == read_struct(b, p, 4)
        n == number(length.v)
    IN  IF ~length.ok THEN length
        ELSE IF n < 0 \/ length.p + (n * w) - 1 > Len(b)
        THEN ReadFailed("struct.error")
        ELSE Read(read_array(b, length.p, w, n), length.p + (n * w))

(***************************************************************************)
(* con.py: Reader                                                          *)
(***************************************************************************)
\* the index a Python list of 12 entries gives to kind, negative kinds
\* counting from the end; -1 when the list raises IndexError
entry(kind) ==
    IF 0 <= kind /\ kind < 12 THEN kind
    ELSE IF -12 <= kind /\ kind < 0 THEN kind + 12
    ELSE -1

\* what Reader.load returns: None, or the (kind, name, value) triple
NoTriple == [none |-> TRUE]

Triple(kind, name, value) ==
    [none |-> FALSE, kind |-> kind, name |-> name, value |-> value]

\* a scalar reader r whose result is wrapped as a value of the model
AsInt(r) == IF r.ok THEN Read(IntValue(r.v), r.p) ELSE r

AsFloat(r) == IF r.ok THEN Read(FloatValue(r.v), r.p) ELSE r

AsStr(r) == IF r.ok THEN Read(StrValue(r.v), r.p) ELSE r

\* Reader._load_list_byte / Reader._load_list_int: result._items is assigned
AsList(kind, r) == IF r.ok THEN Read(List(kind, r.v), r.p) ELSE r

RECURSIVE Reader_load(_, _)
RECURSIVE load_dict(_, _, _)
RECURSIVE load_list(_, _)
RECURSIVE load_items(_, _, _, _, _)
RECURSIVE readers(_, _, _)

\* Reader.readers[kind](flow): IndexError out of the list, TypeError on the
\* None of entry 0
readers(kind, b, p) ==
    LET e == entry(kind)
    IN  IF e = -1 THEN ReadFailed("IndexError")
        ELSE IF e = TAG_NONE THEN ReadFailed("TypeError")
        ELSE IF e = TAG_BYTE THEN AsInt(read_byte(b, p))
        ELSE IF e = TAG_SHORT THEN AsInt(read_short(b, p))
        ELSE IF e = TAG_INT THEN AsInt(read_struct(b, p, 4))
        ELSE IF e = TAG_LONG THEN AsInt(read_long(b, p))
        ELSE IF e = TAG_FLOAT THEN AsFloat(read_float(b, p))
        ELSE IF e = TAG_DOUBLE THEN AsFloat(read_double(b, p))
        ELSE IF e = TAG_BYTE_ARRAY THEN AsList(TAG_BYTE, read_int_array(b, p, 1))
        ELSE IF e = TAG_STRING THEN AsStr(read_string(b, p))
        ELSE IF e = TAG_LIST THEN load_list(b, p)
        ELSE IF e = TAG_COMPOUND THEN load_dict(b, p, Dict(<<>>))
        ELSE AsList(TAG_INT, read_int_array(b, p, 4))

\* Reader.load(flow): v is NoTriple or the triple
Reader_load(b, p) ==
    LET kind == read_byte(b, p)
        name == read_string(b, kind.p)
        value == readers(number(kind.v), b, name.p)
    IN  IF ~kind.ok THEN kind
        ELSE IF number(kind.v) = TAG_NONE THEN Read(NoTriple, kind.p)
        ELSE IF ~name.ok THEN name
        ELSE IF ~value.ok THEN value
        ELSE Read(Triple(IF number(kind.v) \in {TAG_BYTE_ARRAY, TAG_INT_ARRAY}
                         THEN TAG_LIST ELSE number(kind.v),
                         name.v, value.v),
                  value.p)

\* the loop of Reader._load_dict, d being the Dict built so far
load_dict(b, p, d) ==
    LET inner_v == Reader_load(b, p)
        kinded == Dict_set_kind(d, inner_v.v.name, inner_v.v.kind)
        stored == Dict_setitem(kinded.obj, inner_v.v.name, inner_v.v.value)
    IN  IF ~inner_v.ok THEN inner_v
        ELSE IF inner_v.v.none THEN Read(d, inner_v.p)
        ELSE IF ~kinded.ok THEN ReadFailed(kinded.err)
        ELSE IF ~stored.ok THEN ReadFailed(stored.err)
        ELSE load_dict(b, inner_v.p, stored.obj)

\* "for i in range(count): result.append(reader(flow))", count items being
\* left to read into the List l
load_items(kind, b, p, l, count) ==
    LET item == readers(kind, b, p)
        appended == List_insert(l, Len(l.items), item.v)
    IN  IF count <= 0 THEN Read(l, p)
        ELSE IF ~item.ok THEN item
        ELSE IF ~appended.ok THEN ReadFailed(appended.err)
        ELSE load_items(kind, b, item.p, appended.obj, count - 1)

\* Reader._load_list
load_list(b, p) ==
    LET kind == read_byte(b, p)
        count == read_struct(b, kind.p, 4)
        k == number(kind.v)
        as_kind == IF k = TAG_NONE THEN NoKind
                   ELSE IF k \in {TAG_BYTE_ARRAY, TAG_INT_ARRAY} THEN TAG_LIST
                   ELSE k
    IN  IF ~kind.ok THEN kind
        ELSE IF ~count.ok THEN count
        ELSE IF entry(k) = -1 THEN ReadFailed("IndexError")
        ELSE load_items(k, b, count.p,
                        List_set_kind(List(NoKind, <<>>), as_kind).obj,
                        number(count.v))

(***************************************************************************)
(* low.py and con.py: writes, and Writer                                   *)
(***************************************************************************)
\* a write that put the octets out on the flow
Written(out) == [ok |-> TRUE, err |-> "", out |-> out]

\* a write that raised after it had put the octets out on the flow
WriteFailed(err, out) == [ok |-> FALSE, err |-> err, out |-> out]

\* the write w1, then the write w2 when w1 returned
then(w1, w2) ==
    IF w1.ok THEN [ok |-> w2.ok, err |-> w2.err, out |-> w1.out \o w2.out]
    ELSE w1

\* write_struct(flow, fmt, value) for one signed integer of w octets
write_struct(v, w) ==
    IF pack(v, w).ok THEN Written(pack(v, w).octets)
    ELSE WriteFailed("struct.error", <<>>)

\* low.write_byte / write_short / write_int / write_long of a value
write_integer(value, w) ==
    IF value.t = "int" THEN write_struct(value.v, w)
    ELSE WriteFailed("struct.error", <<>>)

\* low.write_float (w = 4) and low.write_double (w = 8)
write_floating(value, w) ==
    IF value.t # "float" THEN WriteFailed("struct.error", <<>>)
    ELSE LET r == CHOOSE r \in FLOATS : r.x = value.x
         IN  Written(IF w = 4 THEN r.f ELSE r.d)

RECURSIVE encode(_)
\* str.encode("utf-8"), for code points below 2048
encode(s) ==
    IF s = <<>> THEN <<>>
    ELSE IF s[1] < 128 THEN <<s[1]>> \o encode(Tail(s))
    ELSE <<192 + (s[1] \div 64), 128 + (s[1] % 64)>> \o encode(Tail(s))

\* low.write_string of a str of code points s: the length is written as a
\* signed short
write_string(s) ==
    then(write_struct(int(Len(encode(s))), 2), Written(encode(s)))

RECURSIVE write_each(_, _)
\* write_struct(flow, ">{count}b", *value) or ">{count}l": nothing is written
\* when one of the values is out of the range of the format
write_each(items, w) ==
    IF items = <<>> THEN Written(<<>>)
    ELSE LET first == write_integer(items[1], w)
             rest == write_each(Tail(items), w)
         IN  IF first.ok /\ rest.ok THEN Written(first.out \o rest.out)
             ELSE WriteFailed("struct.error", <<>>)

\* low.write_byte_array (w = 1) and low.write_int_array (w = 4) of a List
write_array(value, w) ==
    then(write_struct(int(Len(value.items)), 4), write_each(value.items, w))

RECURSIVE scan(_, _, _, _)
\* the loop of _save_list over the inner lists: at_least_one, byte_only and
\* int_only at its end
scan(items, at_least_one, byte_only, int_only) ==
    IF items = <<>> \/ ~(byte_only \/ int_only)
    THEN [at_least_one |-> at_least_one, byte_only |-> byte_only,
          int_only |-> int_only]
    ELSE LET inner_inner_kind == items[1].kind
         IN  IF inner_inner_kind = NoKind
             THEN scan(Tail(items), at_least_one, byte_only, int_only)
             ELSE IF inner_inner_kind = TAG_BYTE
             THEN scan(Tail(items), TRUE, byte_only, FALSE)
             ELSE IF inner_inner_kind = TAG_INT
             THEN scan(Tail(items), TRUE, FALSE, int_only)
             ELSE scan(Tail(items), TRUE, FALSE, FALSE)

\* "Refine elements kind" of _save_list: the inner tag that is written
refined(value) ==
    LET s == scan(value.items, FALSE, TRUE, TRUE)
    IN  IF value.kind = NoKind THEN TAG_NONE
        ELSE IF value.kind = TAG_LIST /\ s.at_least_one /\ s.byte_only
        THEN TAG_BYTE_ARRAY
        ELSE IF value.kind = TAG_LIST /\ s.at_least_one /\ s.int_only
        THEN TAG_INT_ARRAY
        ELSE value.kind

RECURSIVE Writer_save(_, _, _)
RECURSIVE save_dict(_, _)
RECURSIVE save_list(_)
RECURSIVE save_items(_, _)
RECURSIVE writers(_, _)

\* Writer.writers[kind](flow, value)
writers(kind, value) ==
    LET e == entry(kind)
    IN  IF e = -1 THEN WriteFailed("IndexError", <<>>)
        ELSE IF e = TAG_NONE THEN WriteFailed("TypeError", <<>>)
        ELSE IF e = TAG_BYTE THEN write_integer(value, 1)
        ELSE IF e = TAG_SHORT THEN write_integer(value, 2)
        ELSE IF e = TAG_INT THEN write_integer(value, 4)
        ELSE IF e = TAG_LONG THEN write_integer(value, 8)
        ELSE IF e = TAG_FLOAT THEN write_floating(value, 4)
        ELSE IF e = TAG_DOUBLE THEN write_floating(value, 8)
        ELSE IF e = TAG_BYTE_ARRAY THEN write_array(value, 1)
        ELSE IF e = TAG_STRING
        THEN IF value.t = "str" THEN write_string(value.v)
             ELSE WriteFailed("AttributeError", <<>>)
        ELSE IF e = TAG_LIST THEN save_list(value)
        ELSE IF e = TAG_COMPOUND THEN save_dict(value, 1)
        ELSE write_array(value, 4)

\* "for inner_v in value: writer(flow, inner_v)"
save_items(inner_kind, items) ==
    IF items = <<>> THEN Written(<<>>)
    ELSE then(writers(inner_kind, items[1]),
              save_items(inner_kind, Tail(items)))

\* Writer._save_list: the inner tag, the count, then the items; the writer
\* is looked up once the tag and the count are written
save_list(value) ==
    then(write_struct(int(refined(value)), 1),
         then(write_struct(int(Len(value.items)), 4),
              IF entry(refined(value)) = -1
              THEN WriteFailed("IndexError", <<>>)
              ELSE save_items(refined(value), value.items)))

\* Writer._save_dict, from the pair at place n on: one named tag for each
\* key, then the END octet
save_dict(value, n) ==
    IF n > Len(value.pairs) THEN write_struct(int(TAG_NONE), 1)
    ELSE then(Writer_save(value.pairs[n].kind, value.pairs[n].key,
                          value.pairs[n].item),
              save_dict(value, n + 1))

\* Writer.save(flow, kind, name, value)
Writer_save(kind, name, value) ==
    LET refined_kind ==
            IF kind = TAG_LIST /\ value.kind = TAG_BYTE THEN TAG_BYTE_ARRAY
            ELSE IF kind = TAG_LIST /\ value.kind = TAG_INT THEN TAG_INT_ARRAY
            ELSE kind
    IN  then(write_struct(int(refined_kind), 1),
             then(write_string(name), writers(refined_kind, value)))

(***************************************************************************)
(* low.py: strings of any length. A str is a sequence of runs, a run being *)
(* a code point c repeated n times, and no two runs in a row have the same *)
(* code point; octets are a sequence of runs of a unit o repeated n times  *)
(***************************************************************************)
\* the code point c, n times
Run(c, n) == [c |-> c, n |-> n]

\* the octets o, n times
Unit(o, n) == [o |-> o, n |-> n]

\* value.encode("utf-8") of a str held as runs
encode_runs(s) == [k \in 1 .. Len(s) |-> Unit(encode(<<s[k].c>>), s[k].n)]

RECURSIVE octets_in(_)
\* len(raw_value)
octets_in(raw) ==
    IF raw = <<>> THEN 0
    ELSE (Len(raw[1].o) * raw[1].n) + octets_in(Tail(raw))

\* octets, each one once
singles(o) == [k \in 1 .. Len(o) |-> Unit(<<o[k]>>, 1)]

\* low.write_string of a str held as runs: write_short of the length, which
\* raises before anything is written, then flow.write(raw_value)
write_string_runs(s) ==
    LET raw == encode_runs(s)
        length == pack(int(octets_in(raw)), 2)
    IN  IF length.ok THEN Written(singles(length.octets) \o raw)
        ELSE WriteFailed("struct.error", <<>>)

RECURSIVE take(_, _)
\* flow.read(k) for k >= 0 on the octets that are left: what is read, and
\* what is left after it
take(left, k) ==
    IF k = 0 \/ left = <<>> THEN [taken |-> <<>>, rest |-> left]
    ELSE LET r == left[1]
             size == Len(r.o) * r.n
             whole == k \div Len(r.o)
             part == k % Len(r.o)
             after == r.n - whole - (IF part > 0 THEN 1 ELSE 0)
             t == take(Tail(left), k - size)
         IN  IF size <= k
             THEN [taken |-> <<r>> \o t.taken, rest |-> t.rest]
             ELSE [taken |->
                      (IF whole > 0 THEN <<Unit(r.o, whole)>> ELSE <<>>)
                      \o (IF part > 0 THEN <<Unit(SubSeq(r.o, 1, part), 1)>>
                          ELSE <<>>),
                   rest |->
                      (IF part > 0
                       THEN <<Unit(SubSeq(r.o, part + 1, Len(r.o)), 1)>>
                       ELSE <<>>)
                      \o (IF after > 0 THEN <<Unit(r.o, after)>> ELSE <<>>)
                      \o Tail(left)]

\* flow.read(k): all that is left when k is negative
flow_read_runs(left, k) ==
    IF k < 0 THEN [taken |-> left, rest |-> <<>>] ELSE take(left, k)

RECURSIVE expand(_)
\* the octets of a few runs, one by one
expand(raw) ==
    IF raw = <<>> THEN <<>>
    ELSE IF raw[1].n = 1 THEN raw[1].o \o expand(Tail(raw))
    ELSE raw[1].o \o expand(<<Unit(raw[1].o, raw[1].n - 1)>> \o Tail(raw))

RECURSIVE norm(_)
\* the runs of a str, runs of the same code point in a row made one
norm(s) ==
    IF Len(s) < 2 THEN s
    ELSE IF s[1].c = s[2].c
    THEN norm(<<Run(s[1].c, s[1].n + s[2].n)>> \o Tail(Tail(s)))
    ELSE <<s[1]>> \o norm(Tail(s))

\* the octets that stand once, from the front of raw on
once(raw) ==
    LET stop == IF \E k \in 1 .. Len(raw) : raw[k].n > 1
                THEN (CHOOSE k \in 1 .. Len(raw) :
                        raw[k].n > 1 /\ \A j \in 1 .. (k - 1) : raw[j].n = 1)
                ELSE Len(raw) + 1
    IN  SubSeq(raw, 1, stop - 1)

RECURSIVE decode_units(_)
\* raw.decode("utf-8") run by run: the octets that stand once are decoded
\* together, a unit that is repeated is decoded on its own
decode_units(raw) ==
    IF raw = <<>> THEN [ok |-> TRUE, v |-> <<>>]
    ELSE IF raw[1].n > 1
    THEN LET d == decode(raw[1].o)
             r == decode_units(Tail(raw))
         IN  IF d.ok /\ Len(d.v) = 1
             THEN [ok |-> r.ok, v |-> <<Run(d.v[1], raw[1].n)>> \o r.v]
             ELSE [ok |-> FALSE, v |-> <<>>]
    ELSE LET d == decode(expand(once(raw)))
             r == decode_units(SubSeq(raw, Len(once(raw)) + 1, Len(raw)))
         IN  IF d.ok
             THEN [ok |-> r.ok,
                   v |-> [k \in 1 .. Len(d.v) |-> Run(d.v[k], 1)] \o r.v]
             ELSE [ok |-> FALSE, v |-> <<>>]

\* raw.decode("utf-8") of octets held as runs
decode_runs(raw) ==
    LET d == decode_units(raw) IN [ok |-> d.ok, v |-> norm(d.v)]

\* low.read_string on the octets that are left: read_short of the length, a
\* signed short, then flow.read(length).decode("utf-8")
read_string_runs(left) ==
    LET head == take(left, 2)
        o == expand(head.taken)
        length == number(unpack(o))
        body == flow_read_runs(head.rest, length)
        d == decode_runs(body.taken)
    IN  IF Len(o) < 2 THEN [ok |-> FALSE, err |-> "struct.error", v |-> <<>>,
                            rest |-> head.rest]
        ELSE IF ~d.ok THEN [ok |-> FALSE, err |-> "UnicodeDecodeError",
                            v |-> <<>>, rest |-> body.rest]
        ELSE [ok |-> TRUE, err |-> "", v |-> d.v, rest |-> body.rest]

(***************************************************************************)
(* Initial state: no store, no file at the path, an empty byte stream      *)
(***************************************************************************)
NoCall ==
    [op |-> "none", index |-> -1, ok |-> TRUE, err |-> "", value |-> None,
     old |-> Metadata(0, 0)]

Call(op, index, ok, err, value, old) ==
    [op |-> op, index |-> index, ok |-> ok, err |-> err, value |-> value,
     old |-> old]

NoCalls == [i \in Slots |-> "none"]

\* nothing has been handed to iterate
NoBox == [nid |-> <<0, 0, 0>>, but |-> <<0, 0, 0>>]

\* nothing has been handed to the codec
NoOrigin == [class |-> "none", octets |-> <<>>, held |-> NoTriple]

NoCodecCall == [op |-> "none", ok |-> TRUE, err |-> "", n |-> 0]

NoLowCall == [op |-> "none", ok |-> TRUE, err |-> "", n |-> 0]

\* no scenario on the strings of low.py
NoScenario ==
    /\ steps = <<>>
    /\ source = "none"
    /\ lowflow = <<>>
    /\ unread = <<>>
    /\ values = <<>>
    /\ lowcall = NoLowCall

\* no store, no call on the Metadata object nor on the containers
Idle ==
    /\ opened = FALSE
    /\ path = "none"
    /\ toc = EmptyToc
    /\ free_sectors = {}
    /\ nb_sectors = 0
    /\ on_disk = FALSE
    /\ file = EmptyFlow
    /\ stream = EmptyFlow
    /\ last = NoCall
    /\ expect = [i \in Slots |-> None]
    /\ calls = NoCalls
    /\ nops = 0
    /\ metadata = blank_meta
    /\ header = zero_words
    /\ mcall = NoMetaCall
    /\ D = Dict(<<>>)
    /\ L = List(NoKind, <<>>)
    /\ concall = NoConCall

Init ==
    /\ Idle
    /\ buffer = <<>>
    /\ held = NoTriple
    /\ origin = NoOrigin
    /\ codecall = NoCodecCall
    /\ box = NoBox
    /\ yielded = <<>>
    /\ NoScenario

(***************************************************************************)
(* Anvil.open_file and Anvil.open                                          *)
(***************************************************************************)
\* the store built by Anvil.__init__ from the result r of init_store
Opened(r, p) ==
    /\ opened' = TRUE
    /\ path' = p
    /\ toc' = r.toc
    /\ free_sectors' = r.free
    /\ nb_sectors' = r.nb
    /\ expect' = [i \in Slots |-> load_from(r.toc, r.flow, i)]
    /\ calls' = NoCalls
    /\ last' = Call("open", -1, TRUE, "", None, Metadata(0, 0))

\* __init__ raised: no store is returned, and the object that is dropped
\* has _path = None
NotOpened ==
    /\ last' = Call("open", -1, FALSE, "KeyError", None, Metadata(0, 0))
    /\ UNCHANGED <<opened, path, toc, free_sectors, nb_sectors, expect, calls>>

\* Anvil.open_file(path): io.open(path, "rb+"), or "wb+" when that fails
open_file ==
    /\ ~opened
    /\ nops < MaxOps
    /\ nops' = nops + 1
    /\ on_disk' = TRUE
    /\ LET r == init_store(IF on_disk THEN file ELSE EmptyFlow)
       IN  IF r.ok
           THEN Opened(r, "path") /\ file' = r.flow
           ELSE NotOpened /\ file' = file
    /\ UNCHANGED <<stream, others>>

\* Anvil.open(flow) on a byte stream: a new one, the one of an earlier
\* store, or one holding the octets of the file
open_stream ==
    /\ ~opened
    /\ nops < MaxOps
    /\ nops' = nops + 1
    /\ \E f \in {EmptyFlow, stream} \cup (IF on_disk THEN {file} ELSE {}) :
           LET r == init_store(f)
           IN  IF r.ok
               THEN Opened(r, "none") /\ stream' = r.flow
               ELSE NotOpened /\ stream' = f
    /\ UNCHANGED <<on_disk, file, others>>

(***************************************************************************)
(* Anvil.__del__                                                           *)
(***************************************************************************)
\* the for / else of __del__: no entry of the table has a length
no_referenced_chunk(t) == \A i \in Slots : t[i].length = 0

\* the file is unlinked whatever the store was opened on
unlinks_any(p, t) == no_referenced_chunk(t)

\* __del__ unlinks the file
unlinks(p, t) == p # "none" /\ no_referenced_chunk(t)

del ==
    /\ opened
    /\ nops < MaxOps
    /\ nops' = nops + 1
    /\ opened' = FALSE
    /\ IF unlinks(path, toc)
       THEN on_disk' = FALSE /\ file' = EmptyFlow
       ELSE UNCHANGED <<on_disk, file>>
    /\ last' = Call("del", -1, TRUE, "", None, Metadata(0, 0))
    /\ toc' = EmptyToc
    /\ free_sectors' = {}
    /\ nb_sectors' = 0
    /\ UNCHANGED <<path, stream, expect, calls, others>>

(***************************************************************************)
(* Anvil.save_chunk                                                        *)
(***************************************************************************)
\* the store writes f to its flow
set_flow(f) ==
    IF path = "path"
    THEN file' = f /\ UNCHANGED stream
    ELSE stream' = f /\ UNCHANGED file

\* nbt.save(uncompressed_flow, value) returns
encodable(value) == value # Unencodable

\* len(zlib.compress(...)) of the encoding of value
compressed_length(value) == value.clen

\* the sectors i of the free set whose run [i, i + needed) is free
candidates(free, needed) ==
    {i \in free : \A j \in i .. (i + needed - 1) : j \in free}

\* first = None
NoSector == -1

\* the search of save_chunk: the first sector, in the iteration order of the
\* set, that starts a free run; a set has no order of its own, so any
\* candidate can come first
first_choices(free, needed) ==
    IF candidates(free, needed) = {} THEN {NoSector} ELSE candidates(free, needed)

\* the timestamp is set before the length
update_metadata_late_check(meta, needed, t, first, nb) ==
    IF ~length_accepted(needed)
    THEN [ok |-> FALSE, meta |-> [meta EXCEPT !.timestamp = t]]
    ELSE [ok |-> TRUE,
          meta |-> [offset |-> IF first = NoSector THEN nb ELSE first,
                    length |-> needed,
                    timestamp |-> t]]

\* "Update metadata": meta.length = ..., meta.timestamp = ..., meta.offset = ...
\* in this order, the length setter raising on a length it does not accept
update_metadata(meta, needed, t, first, nb) ==
    IF ~length_accepted(needed)
    THEN [ok |-> FALSE, meta |-> meta]
    ELSE [ok |-> TRUE,
          meta |-> [offset |-> IF first = NoSector THEN nb ELSE first,
                    length |-> needed,
                    timestamp |-> t]]

\* _nb_sectors after the allocation
grown(nb, needed, first) == IF first = NoSector THEN nb + needed ELSE nb

\* the sectors found by the search stay in the free set
allocated_kept(free, meta, first) == free

\* _free_sectors after the allocation
allocated(free, meta, first) ==
    IF first = NoSector THEN free ELSE free \ used_sectors(meta)

\* "Write data": the payload from meta.position on, padded to the sector
\* boundary when the sectors are new
write_data(f, meta, value) ==
    [f EXCEPT
        !.size = IF meta.offset + meta.length > @
                 THEN meta.offset + meta.length ELSE @,
        !.data = [s \in SectorIds |->
                     IF s \in used_sectors(meta)
                     THEN Part(value, s - meta.offset) ELSE @[s]]]

\* save_chunk raises, leaving meta in the slot: the sectors of the slot are
\* already in the free set
save_fails(index, value, err, meta) ==
    /\ free_sectors' = free_used_sectors(free_sectors, toc[index])
    /\ toc' = [toc EXCEPT ![index] = meta]
    /\ calls' = [calls EXCEPT ![index] = "failed"]
    /\ last' = Call("save", index, FALSE, err, value, toc[index])
    /\ UNCHANGED <<nb_sectors, file, stream, expect>>

save_chunk(index, value, t) ==
    /\ opened
    /\ nops < MaxOps
    /\ 0 <= index /\ index < NB_OF_ENTRIES
    /\ nops' = nops + 1
    /\ UNCHANGED <<opened, path, on_disk, others>>
    /\ LET meta == toc[index]
           free == free_used_sectors(free_sectors, meta)
           needed == nb_of_needed_sectors(compressed_length(value))
       IN  IF ~encodable(value)
           THEN save_fails(index, value, "nbt.save", meta)
           ELSE \E first \in first_choices(free, needed) :
                LET r == update_metadata(meta, needed, t, first, nb_sectors)
                IN  IF ~r.ok
                    THEN save_fails(index, value, "AssertionError", r.meta)
                    ELSE /\ grown(nb_sectors, needed, first) <= MaxSectors
                         /\ toc' = [toc EXCEPT ![index] = r.meta]
                         /\ nb_sectors' = grown(nb_sectors, needed, first)
                         /\ free_sectors' = allocated(free, r.meta, first)
                         /\ set_flow(write_data(write_meta(flow, index, r.meta),
                                                r.meta, value))
                         /\ expect' = [expect EXCEPT ![index] = value]
                         /\ calls' = [calls EXCEPT ![index] = "saved"]
                         /\ last' = Call("save", index, TRUE, "", value, meta)

(***************************************************************************)
(* Anvil.wipe_chunk                                                        *)
(***************************************************************************)
\* the slot is wiped whatever its length
referenced_always(meta) == TRUE

\* the test of wipe_chunk
referenced(meta) == meta.length # 0

\* the wiped slot gets the metadata of a new store
wiped_reset(meta, t) == Metadata(0, t)

\* the metadata wipe_chunk leaves in the slot
wiped(meta, t) == [meta EXCEPT !.length = 0, !.timestamp = t]

wipe_chunk(index, t) ==
    /\ opened
    /\ nops < MaxOps
    /\ 0 <= index /\ index < NB_OF_ENTRIES
    /\ nops' = nops + 1
    /\ UNCHANGED <<opened, path, on_disk, nb_sectors, others>>
    /\ expect' = [expect EXCEPT ![index] = None]
    /\ calls' = [calls EXCEPT ![index] =
                    IF referenced(toc[index]) THEN "wiped" ELSE "wiped empty"]
    /\ last' = Call("wipe", index, TRUE, "", None, toc[index])
    /\ IF referenced(toc[index])
       THEN /\ free_sectors' = free_used_sectors(free_sectors, toc[index])
            /\ toc' = [toc EXCEPT ![index] = wiped(@, t)]
            /\ set_flow(write_meta(flow, index, wiped(toc[index], t)))
       ELSE UNCHANGED <<toc, free_sectors, file, stream>>

(***************************************************************************)
(* What is handed to the codec: triples to write, flows to read            *)
(***************************************************************************)
\* the keys "a" and "b"
Keys == {<<97>>, <<98>>}

\* the sequences of at most n elements of S
SeqsUpTo(S, n) == UNION {[1 .. k -> S] : k \in 0 .. n}

RECURSIVE Flat(_)
\* the octets of a sequence of payloads
Flat(payloads) ==
    IF payloads = <<>> THEN <<>> ELSE payloads[1] \o Flat(Tail(payloads))

\* -128 and 127, -2^15, -2^31, -2^63; 3.5 and 3.7; "" and "aé"
ScalarsOf(kind) ==
    IF kind = TAG_BYTE THEN {IntValue(unpack(<<128>>)), IntValue(int(127))}
    ELSE IF kind = TAG_SHORT THEN {IntValue(unpack(<<128, 0>>))}
    ELSE IF kind = TAG_INT THEN {IntValue(unpack(<<128, 0, 0, 0>>))}
    ELSE IF kind = TAG_LONG
    THEN {IntValue(unpack(<<128, 0, 0, 0, 0, 0, 0, 0>>))}
    ELSE IF kind = TAG_FLOAT THEN {FloatValue("3.5"), FloatValue("3.7")}
    ELSE IF kind = TAG_DOUBLE THEN {FloatValue("3.7")}
    ELSE {StrValue(<<>>), StrValue(<<97, 233>>)}

ScalarKinds ==
    {TAG_BYTE, TAG_SHORT, TAG_INT, TAG_LONG, TAG_FLOAT, TAG_DOUBLE, TAG_STRING}

\* the Lists of scalars, with the empty List of no kind
ListsOfScalars ==
    {List(NoKind, <<>>)}
        \cup UNION {{List(kind, items) :
                        items \in SeqsUpTo(ScalarsOf(kind), MaxItems)} :
                    kind \in ScalarKinds}

\* the Lists that the Lists of Lists hold
InnerLists ==
    {List(NoKind, <<>>), List(TAG_BYTE, <<>>),
     List(TAG_BYTE, <<IntValue(int(127))>>), List(TAG_INT, <<>>),
     List(TAG_INT, <<IntValue(unpack(<<128, 0, 0, 0>>))>>),
     List(TAG_STRING, <<>>)}

ListsOfLists ==
    {List(TAG_LIST, items) : items \in SeqsUpTo(InnerLists, MaxItems)}

\* the Dicts that the Lists of Dicts hold
InnerDicts ==
    {Dict(<<>>), Dict(<<DictPair(<<97>>, TAG_BYTE, IntValue(int(127)))>>)}

ListsOfDicts ==
    {List(TAG_COMPOUND, items) : items \in SeqsUpTo(InnerDicts, MaxItems)}

\* the (kind, item) pairs of the Dicts
Pairs ==
    {[kind |-> TAG_BYTE, item |-> IntValue(unpack(<<128>>))],
     [kind |-> TAG_SHORT, item |-> IntValue(int(127))],
     [kind |-> TAG_LONG, item |-> IntValue(unpack(<<128, 0, 0, 0, 0, 0, 0, 0>>))],
     [kind |-> TAG_FLOAT, item |-> FloatValue("3.5")],
     [kind |-> TAG_DOUBLE, item |-> FloatValue("3.7")],
     [kind |-> TAG_STRING, item |-> StrValue(<<97, 233>>)],
     [kind |-> TAG_LIST, item |-> List(NoKind, <<>>)],
     [kind |-> TAG_LIST, item |-> List(TAG_BYTE, <<IntValue(int(127))>>)],
     [kind |-> TAG_LIST,
      item |-> List(TAG_LIST, <<List(TAG_INT, <<>>), List(NoKind, <<>>)>>)],
     [kind |-> TAG_COMPOUND, item |-> Dict(<<>>)],
     [kind |-> TAG_COMPOUND,
      item |-> Dict(<<DictPair(<<98>>, TAG_BYTE, IntValue(int(127)))>>)]}

\* the Dicts of at most two keys, in both orders of the keys
Dicts ==
    {Dict(<<>>)}
        \cup {Dict(<<DictPair(k, e.kind, e.item)>>) : k \in Keys, e \in Pairs}
        \cup {Dict(<<DictPair(k[1], e[1].kind, e[1].item),
                     DictPair(k[2], e[2].kind, e[2].item)>>) :
                 k \in {<<<<97>>, <<98>>>>, <<<<98>>, <<97>>>>},
                 e \in Pairs \X Pairs}

\* the triples handed to Writer.save
Triples ==
    UNION {{Triple(kind, name, v) :
               name \in {<<>>, <<97>>}, v \in ScalarsOf(kind)} :
           kind \in ScalarKinds}
        \cup {Triple(TAG_LIST, <<>>, l) :
                 l \in ListsOfScalars \cup ListsOfLists \cup ListsOfDicts}
        \cup {Triple(TAG_COMPOUND, <<>>, d) : d \in Dicts}

\* a length or a count of 4 octets on the wire
Wire4(n) == <<0, 0, 0, n>>

\* a string on the wire: its length on 2 octets, then its octets
WireString(o) == <<0, Len(o)>> \o o

\* a named tag on the wire
Named(tag, o, payload) == <<tag>> \o WireString(o) \o payload

\* payloads of the tags that hold no other tag: the scalars above, byte
\* arrays, int arrays
Payloads(tag) ==
    IF tag = TAG_BYTE THEN {<<128>>, <<127>>}
    ELSE IF tag = TAG_SHORT THEN {<<128, 0>>}
    ELSE IF tag = TAG_INT THEN {<<128, 0, 0, 0>>}
    ELSE IF tag = TAG_LONG THEN {<<128, 0, 0, 0, 0, 0, 0, 0>>}
    ELSE IF tag = TAG_FLOAT THEN {<<64, 96, 0, 0>>, <<64, 108, 204, 205>>}
    ELSE IF tag = TAG_DOUBLE THEN {<<64, 13, 153, 153, 153, 153, 153, 154>>}
    ELSE IF tag = TAG_BYTE_ARRAY
    THEN {Wire4(0), Wire4(1) \o <<5>>, Wire4(2) \o <<5, 250>>}
    ELSE IF tag = TAG_STRING THEN {WireString(<<>>), WireString(<<97, 195, 169>>)}
    ELSE {Wire4(0), Wire4(1) \o <<128, 0, 0, 0>>}

LeafTags == ScalarKinds \cup {TAG_BYTE_ARRAY, TAG_INT_ARRAY}

\* a LIST payload: the inner tag, the count, the payloads of the elements
WireList(tag, payloads) == <<tag>> \o Wire4(Len(payloads)) \o Flat(payloads)

\* LIST payloads of leaf tags, and the empty LIST of inner tag END
WireLists ==
    {WireList(TAG_NONE, <<>>)}
        \cup UNION {{WireList(tag, payloads) :
                        payloads \in SeqsUpTo(Payloads(tag), MaxItems)} :
                    tag \in LeafTags}

\* the LIST payloads that the LIST payloads of inner tag LIST hold
InnerWireLists ==
    {WireList(TAG_NONE, <<>>), WireList(TAG_BYTE, <<>>),
     WireList(TAG_BYTE, <<<<5>>>>), WireList(TAG_INT, <<>>),
     WireList(TAG_STRING, <<>>)}

\* the COMPOUND payloads that the LIST payloads of inner tag COMPOUND hold
InnerWireCompounds == {<<0>>, Named(TAG_BYTE, <<97>>, <<127>>) \o <<0>>}

WireListsOfContainers ==
    {WireList(TAG_LIST, payloads) :
        payloads \in SeqsUpTo(InnerWireLists, MaxItems)}
        \cup {WireList(TAG_COMPOUND, payloads) :
                 payloads \in SeqsUpTo(InnerWireCompounds, MaxItems)}

\* the (tag, payload) pairs of the named tags of the COMPOUND payloads
WirePairs ==
    {[tag |-> TAG_BYTE, payload |-> <<128>>],
     [tag |-> TAG_SHORT, payload |-> <<128, 0>>],
     [tag |-> TAG_LONG, payload |-> <<128, 0, 0, 0, 0, 0, 0, 0>>],
     [tag |-> TAG_FLOAT, payload |-> <<64, 96, 0, 0>>],
     [tag |-> TAG_DOUBLE, payload |-> <<64, 13, 153, 153, 153, 153, 153, 154>>],
     [tag |-> TAG_BYTE_ARRAY, payload |-> Wire4(1) \o <<5>>],
     [tag |-> TAG_STRING, payload |-> WireString(<<97, 195, 169>>)],
     [tag |-> TAG_LIST, payload |-> WireList(TAG_NONE, <<>>)],
     [tag |-> TAG_LIST, payload |-> WireList(TAG_SHORT, <<<<128, 0>>>>)],
     [tag |-> TAG_COMPOUND, payload |-> <<0>>],
     [tag |-> TAG_COMPOUND,
      payload |-> Named(TAG_BYTE, <<98>>, <<127>>) \o <<0>>],
     [tag |-> TAG_INT_ARRAY, payload |-> Wire4(0)]}

\* COMPOUND payloads of at most two named tags of different keys
WireCompounds ==
    {<<0>>}
        \cup {Named(e.tag, k, e.payload) \o <<0>> : k \in Keys, e \in WirePairs}
        \cup {Named(e[1].tag, k[1], e[1].payload)
                  \o Named(e[2].tag, k[2], e[2].payload) \o <<0>> :
                 k \in {<<<<97>>, <<98>>>>, <<<<98>>, <<97>>>>},
                 e \in WirePairs \X WirePairs}

\* the well-formed flows: one named tag each
WellFormed ==
    UNION {{Named(tag, o, payload) :
               o \in {<<>>, <<97>>}, payload \in Payloads(tag)} :
           tag \in LeafTags}
        \cup {Named(TAG_LIST, <<>>, payload) :
                 payload \in WireLists \cup WireListsOfContainers}
        \cup {Named(TAG_COMPOUND, <<>>, payload) : payload \in WireCompounds}

\* COMPOUND flows where the key "a" comes twice, with "b" in between or not
Duplicates ==
    {Named(TAG_COMPOUND, <<>>,
           Named(e[1].tag, <<97>>, e[1].payload)
               \o between \o Named(e[2].tag, <<97>>, e[2].payload) \o <<0>>) :
        e \in WirePairs \X WirePairs,
        between \in {<<>>, Named(TAG_BYTE, <<98>>, <<127>>)}}

\* the octets that are none of the twelve tags
UnknownTags == 12 .. 255

\* octets that every reader finds a payload in
Filler == <<0, 0, 0, 0, 0, 0, 0, 0>>

\* flows with an unknown tag: as the kind of the named tag of the flow, as
\* the kind of a named tag of a COMPOUND, as the inner tag of a LIST of no
\* element and of one element
UnknownTagged ==
    UNION {{Named(tag, <<>>, Filler),
            Named(TAG_COMPOUND, <<>>, Named(tag, <<97>>, Filler) \o <<0>>),
            Named(TAG_LIST, <<>>, <<tag>> \o Wire4(0)),
            Named(TAG_LIST, <<>>, <<tag>> \o Wire4(1) \o Filler)} :
           tag \in UnknownTags}

\* -1 and -2^31 on four octets
NegativeWords == {<<255, 255, 255, 255>>, <<128, 0, 0, 0>>}

\* flows of a LIST whose count is negative, for each of the twelve inner
\* tags, alone and before octets that every reader finds a payload in
NegativeCounts ==
    UNION {{Named(TAG_LIST, <<>>, <<tag>> \o word),
            Named(TAG_LIST, <<>>, <<tag>> \o word \o Filler)} :
           tag \in 0 .. 11, word \in NegativeWords}

\* flows of a byte array or int array whose length is negative: as the named
\* tag of the flow, in a COMPOUND and as the element of a LIST
NegativeLengths ==
    UNION {{Named(tag, <<>>, word),
            Named(tag, <<>>, word \o Filler),
            Named(TAG_COMPOUND, <<>>, Named(tag, <<97>>, word) \o <<0>>),
            Named(TAG_LIST, <<>>, <<tag>> \o Wire4(1) \o word)} :
           tag \in {TAG_BYTE_ARRAY, TAG_INT_ARRAY}, word \in NegativeWords}

\* a flow handed to Reader.load
FromFlow(class, octets) == [class |-> class, octets |-> octets, held |-> NoTriple]

\* a triple handed to Writer.save
FromTriple(triple) == [class |-> "triple", octets |-> <<>>, held |-> triple]

Origins ==
    {FromFlow("well-formed", o) : o \in WellFormed}
        \cup {FromFlow("duplicate", o) : o \in Duplicates}
        \cup {FromFlow("unknown tag", o) : o \in UnknownTagged}
        \cup {FromFlow("negative count", o) : o \in NegativeCounts}
        \cup {FromFlow("negative length", o) : o \in NegativeLengths}
        \cup {FromFlow("end", <<0>>)}
        \cup {FromTriple(triple) : triple \in Triples}

(***************************************************************************)
(* Reader.load and Writer.save on what was handed                          *)
(***************************************************************************)
InitCodec ==
    /\ Idle
    /\ origin \in Origins
    /\ buffer = origin.octets
    /\ held = origin.held
    /\ codecall = NoCodecCall
    /\ box = NoBox
    /\ yielded = <<>>
    /\ NoScenario

\* Reader.load(flow) on the flow that was handed, or on the flow that
\* Writer.save has written
load ==
    /\ IF origin.class = "triple"
       THEN codecall.op = "save" /\ codecall.ok
       ELSE codecall.op = "none"
    /\ LET r == Reader_load(buffer, 1)
       IN  /\ held' = IF r.ok THEN r.v ELSE NoTriple
           /\ codecall' = [op |-> "load", ok |-> r.ok, err |-> r.err,
                           n |-> codecall.n + 1]
    /\ UNCHANGED <<buffer, origin, anvil_vars, meta_vars, con_vars, iter_vars, str_vars>>

\* Writer.save(flow, kind, name, value) of the triple in memory to a new flow
save ==
    /\ ~held.none
    /\ IF origin.class = "triple"
       THEN codecall.op = "none"
       ELSE codecall.op = "load" /\ codecall.ok
    /\ LET w == Writer_save(held.kind, held.name, held.value)
       IN  /\ buffer' = w.out
           /\ codecall' = [op |-> "save", ok |-> w.ok, err |-> w.err,
                           n |-> codecall.n + 1]
    /\ UNCHANGED <<held, origin, anvil_vars, meta_vars, con_vars, iter_vars, str_vars>>

NextCodec == load \/ save

SpecCodec == InitCodec /\ [][NextCodec]_vars

(***************************************************************************)
(* The Metadata object: its setters, Anvil._write_meta on its slot, and    *)
(* the read of the slot's header words by Anvil.__init__                   *)
(***************************************************************************)
\* 2^23 - 1, 2^23, 2^24 - 1 and 2^24 among the offsets
Offsets ==
    {int(1), int(2), int(5), unpack(<<0, 127, 255, 255>>),
     unpack(<<0, 128, 0, 0>>), unpack(<<0, 255, 255, 255>>),
     unpack(<<1, 0, 0, 0>>)}

Lengths == {int(0), int(3), int(255), int(256)}

\* 2^31 - 1, 2^31, 2^32 - 1 and 2^32 among the timestamps
Timestamps ==
    {int(-1), int(0), unpack(<<127, 255, 255, 255>>),
     unpack(<<0, 128, 0, 0, 0>>), unpack(<<0, 255, 255, 255, 255>>),
     unpack(<<1, 0, 0, 0, 0>>)}

\* the outcome r of a setter
MetaSet(op, r) ==
    /\ metadata' = r.meta
    /\ mcall' = [op |-> op, ok |-> r.ok,
                 err |-> IF r.ok THEN "" ELSE "AssertionError"]
    /\ UNCHANGED <<header, anvil_vars, con_vars, codec_vars, iter_vars, str_vars>>

set_offset == \E offset \in Offsets : MetaSet("offset", offset_setter(metadata, offset))

set_length == \E length \in Lengths : MetaSet("length", length_setter(metadata, length))

set_timestamp ==
    \E timestamp \in Timestamps :
        MetaSet("timestamp", timestamp_setter(metadata, timestamp))

\* Anvil._write_meta(index, meta): the location word to sector 0, then the
\* timestamp to sector 1, each by low.write_int
write_meta_words ==
    LET loc == write_int(location_word(metadata))
        ts == write_int(metadata.timestamp)
    IN  /\ header' = [loc |-> IF loc.ok THEN loc.octets ELSE header.loc,
                      ts |-> IF loc.ok /\ ts.ok THEN ts.octets ELSE header.ts]
        /\ mcall' = [op |-> "_write_meta", ok |-> loc.ok /\ ts.ok,
                     err |-> IF loc.ok /\ ts.ok THEN "" ELSE "struct.error"]
        /\ UNCHANGED <<metadata, anvil_vars, con_vars, codec_vars, iter_vars, str_vars>>

\* Anvil.__init__ on the slot: Metadata(locations[i], timestamps[i]) of the
\* words low.read_int returns
read_meta_words ==
    LET r == Metadata_init(read_int(header.loc), read_int(header.ts))
    IN  /\ metadata' = IF r.ok THEN r.meta ELSE metadata
        /\ mcall' = [op |-> "__init__", ok |-> r.ok,
                     err |-> IF r.ok THEN "" ELSE "AssertionError"]
        /\ UNCHANGED <<header, anvil_vars, con_vars, codec_vars, iter_vars, str_vars>>

NextMeta ==
    set_offset \/ set_length \/ set_timestamp \/ write_meta_words
        \/ read_meta_words

SpecMeta == Init /\ [][NextMeta]_vars

(***************************************************************************)
(* Calls on a Dict and calls on a List                                     *)
(***************************************************************************)
\* the nine valid kinds, END, the two array tags, 12 and None
Kinds == VALID_TAGS \cup {TAG_NONE, TAG_BYTE_ARRAY, TAG_INT_ARRAY, 12, NoKind}

\* 5, 200, -2^31 and 2^63; 3.5; "a"; a List of no kind, a List of BYTE; a Dict
Items ==
    {IntValue(int(5)), IntValue(int(200)),
     IntValue(unpack(<<128, 0, 0, 0>>)),
     IntValue(unpack(<<0, 128, 0, 0, 0, 0, 0, 0, 0>>)),
     FloatValue("3.5"), StrValue(<<97>>),
     List(NoKind, <<>>), List(TAG_BYTE, <<IntValue(int(1))>>),
     Dict(<<>>)}

\* the outcome r of a call on the Dict
DictCall(op, key, kind, value, r) ==
    /\ D' = r.obj
    /\ concall' = [op |-> op, key |-> key, kind |-> kind, value |-> value,
                   ok |-> r.ok, err |-> r.err]
    /\ UNCHANGED <<L, anvil_vars, meta_vars, codec_vars, iter_vars, str_vars>>

setitem ==
    \E key \in Keys, value \in Items :
        DictCall("setitem", key, NoKind, value, Dict_setitem(D, key, value))

set_kind ==
    \E key \in Keys, kind \in Kinds :
        DictCall("set_kind", key, kind, IntValue(int(0)),
                 Dict_set_kind(D, key, kind))

delitem ==
    \E key \in Keys :
        DictCall("delitem", key, NoKind, IntValue(int(0)), Dict_delitem(D, key))

NextDict == setitem \/ set_kind \/ delitem

SpecDict == Init /\ [][NextDict]_vars

\* the outcome r of a call on the List
ListCall(op, key, kind, value, r) ==
    /\ L' = r.obj
    /\ concall' = [op |-> op, key |-> key, kind |-> kind, value |-> value,
                   ok |-> r.ok, err |-> r.err]
    /\ UNCHANGED <<D, anvil_vars, meta_vars, codec_vars, iter_vars, str_vars>>

\* List.insert(key, value); append(value) is insert(len(self), value)
insert ==
    /\ Len(L.items) < MaxItems
    /\ \E key \in 0 .. Len(L.items), value \in Items :
           ListCall("insert", <<key>>, NoKind, value, List_insert(L, key, value))

list_set_kind ==
    \E kind \in Kinds :
        ListCall("set_kind", <<>>, kind, IntValue(int(0)), List_set_kind(L, kind))

list_delitem ==
    \E key \in 1 .. Len(L.items) :
        ListCall("delitem", <<key - 1>>, NoKind, IntValue(int(0)),
                 List_delitem(L, key))

\* L[key] = value, the key len(L) included
list_setitem ==
    \E key \in 0 .. Len(L.items), value \in Items :
        ListCall("setitem", <<key>>, NoKind, value, List_setitem(L, key, value))

\* the lists assigned to a slice: of 5, 2^63 and 3.5, two items at most
SliceValues ==
    SeqsUpTo({IntValue(int(5)),
              IntValue(unpack(<<0, 128, 0, 0, 0, 0, 0, 0, 0>>)),
              FloatValue("3.5")}, 2)

\* L[i:j] = value
list_setslice ==
    \E i \in 0 .. Len(L.items) :
        \E j \in i .. Len(L.items), value \in SliceValues :
            /\ Len(L.items) - (j - i) + Len(value) <= MaxItems
            /\ ListCall("setslice", <<i, j>>, NoKind, List(NoKind, value),
                        List_setslice(L, i, j, value))

NextList ==
    insert \/ list_set_kind \/ list_delitem \/ list_setitem \/ list_setslice

SpecList == Init /\ [][NextList]_vars

(***************************************************************************)
(* iterator.py: iterate(nid, but), the positions in the order of the yields *)
(***************************************************************************)
\* a division that rounds towards zero
shift_right_truncating(n, k) ==
    IF n >= 0 THEN n \div (2 ^ k) ELSE -((-n) \div (2 ^ k))

\* n >> k
shift_right(n, k) == n \div (2 ^ k)

max(a, b) == IF a >= b THEN a ELSE b

min(a, b) == IF a <= b THEN a ELSE b

RECURSIVE for(_, _, _)
\* "for i in range(a, b): <body>", body[i] being the yields of the body for i
for(a, b, body) == IF a >= b THEN <<>> ELSE body[a] \o for(a + 1, b, body)

\* the yields of iterate(nid, but)
iterate(nid, but) ==
    LET xn == nid[1]
        yn == nid[2]
        zn == nid[3]
        xb == but[1]
        yb == but[2]
        zb == but[3]
    IN  for(shift_right(zn, 9), shift_right(zb + 511, 9), [rz \in Int |->
        for(shift_right(xn, 9), shift_right(xb + 511, 9), [rx \in Int |->
        for(max(32 * rz, shift_right(zn, 4)),
            min(32 * (rz + 1), shift_right(zb + 15, 4)), [cz \in Int |->
        for(max(32 * rx, shift_right(xn, 4)),
            min(32 * (rx + 1), shift_right(xb + 15, 4)), [cx \in Int |->
        for(shift_right(yn, 4), shift_right(yb + 15, 4), [cy \in Int |->
        for(max(16 * cx, xn), min(16 * (cx + 1), xb), [x \in Int |->
        for(max(16 * cz, zn), min(16 * (cz + 1), zb), [z \in Int |->
        for(max(16 * cy, yn), min(16 * (cy + 1), yb), [y \in Int |->
            <<<<x, y, z>>>>])])])])])])])])

\* where a box starts along an axis: two blocks before a region, one block
\* before a chunk
Starts == {-2, 15, 510}

\* how wide a box is along an axis; -1 for a box whose `but` is before its `nid`
Spans == {-1, 0, 1, MaxSpan}

\* one block thick, and LongSpan wide along x or along z, over four regions
LongBoxes ==
    {[nid |-> <<-3, 0, 0>>, but |-> <<LongSpan - 3, 1, 1>>],
     [nid |-> <<7, -1, -515>>, but |-> <<8, 0, LongSpan - 515>>]}

Boxes ==
    {[nid |-> <<s[1], s[2], s[3]>>,
      but |-> <<s[1] + w[1], s[2] + w[2], s[3] + w[3]>>] :
        s \in Starts \X {-1, 15} \X Starts, w \in Spans \X Spans \X Spans}
        \cup LongBoxes

InitIter ==
    /\ Idle
    /\ buffer = <<>>
    /\ held = NoTriple
    /\ origin = NoOrigin
    /\ codecall = NoCodecCall
    /\ box \in Boxes
    /\ yielded = <<>>
    /\ NoScenario

\* next() on the generator iterate(nid, but): the next position is yielded;
\* called MaxSpan ^ 3 times at most, the volume of the largest of the boxes
\* that are not long
next ==
    /\ Len(yielded) < Len(iterate(box.nid, box.but))
    /\ Len(yielded) < MaxSpan * MaxSpan * MaxSpan
    /\ yielded' = Append(yielded, iterate(box.nid, box.but)[Len(yielded) + 1])
    /\ UNCHANGED <<box, anvil_vars, meta_vars, con_vars, codec_vars, str_vars>>

\* "for x, y, z in <the generator>": the positions left are all yielded
for_loop ==
    /\ Len(yielded) < Len(iterate(box.nid, box.but))
    /\ yielded' = iterate(box.nid, box.but)
    /\ UNCHANGED <<box, anvil_vars, meta_vars, con_vars, codec_vars, str_vars>>

NextIter == next \/ for_loop

SpecIter == InitIter /\ [][NextIter]_vars

(***************************************************************************)
(* A scenario on strings: write_string of each, then read_string of each   *)
(***************************************************************************)
\* the lengths of the runs: around 2^14, 2^15 and 2^16
Repeats == {1, 2, 16383, 16384, 32767, 32768, 65535}

\* the strings: the empty one, "a" and e acute repeated, and "a" repeated
\* before one e acute; none is encoded on more than 65535 octets
Texts ==
    {s \in {<<>>}
            \cup {<<Run(c, n)>> : c \in {97, 233}, n \in Repeats}
            \cup {<<Run(97, n), Run(233, 1)>> : n \in {1, 32765, 32766, 65533}} :
        octets_in(encode_runs(s)) <= 65535}

\* the scenarios: one string, or two
Scenarios == {<<s>> : s \in Texts} \cup {<<s, t>> : s \in Texts, t \in Texts}

\* the length of a string on the wire: two octets, the high one first
WireLength(n) == <<n \div 256, n % 256>>

RECURSIVE WireStrings(_)
\* the flow that holds the strings of a scenario
WireStrings(scenario) ==
    IF scenario = <<>> THEN <<>>
    ELSE singles(WireLength(octets_in(encode_runs(scenario[1]))))
            \o encode_runs(scenario[1]) \o WireStrings(Tail(scenario))

\* a scenario whose flow is still to be written, or was handed with the
\* strings in it
InitString ==
    /\ Idle
    /\ buffer = <<>>
    /\ held = NoTriple
    /\ origin = NoOrigin
    /\ codecall = NoCodecCall
    /\ box = NoBox
    /\ yielded = <<>>
    /\ steps \in Scenarios
    /\ source \in {"written", "handed"}
    /\ lowflow = IF source = "handed" THEN WireStrings(steps) ELSE <<>>
    /\ unread = lowflow
    /\ values = <<>>
    /\ lowcall = NoLowCall

\* step.write(flow, step.value) for the next step of the scenario, and
\* flow.seek(0, 0) after the last one
low_write_string ==
    /\ source = "written"
    /\ lowcall.op \in {"none", "write_string"}
    /\ lowcall.ok
    /\ lowcall.n < Len(steps)
    /\ LET w == write_string_runs(steps[lowcall.n + 1])
       IN  /\ lowflow' = lowflow \o w.out
           /\ unread' = lowflow'
           /\ lowcall' = [op |-> "write_string", ok |-> w.ok, err |-> w.err,
                          n |-> lowcall.n + 1]
    /\ UNCHANGED <<steps, source, values, anvil_vars, meta_vars, con_vars,
                   codec_vars, iter_vars>>

\* step.read(flow) for the next step of the scenario
low_read_string ==
    /\ \/ source = "handed" /\ lowcall.op = "none"
       \/ lowcall.op = "write_string" /\ lowcall.ok /\ lowcall.n = Len(steps)
       \/ lowcall.op = "read_string" /\ lowcall.ok
    /\ Len(values) < Len(steps)
    /\ LET r == read_string_runs(unread)
       IN  /\ values' = IF r.ok THEN Append(values, r.v) ELSE values
           /\ unread' = r.rest
           /\ lowcall' = [op |-> "read_string", ok |-> r.ok, err |-> r.err,
                          n |-> Len(values) + 1]
    /\ UNCHANGED <<steps, source, lowflow, anvil_vars, meta_vars, con_vars,
                   codec_vars, iter_vars>>

NextString == low_write_string \/ low_read_string

SpecString == InitString /\ [][NextString]_vars

(***************************************************************************)
(* Opening flows that were not written by a store                          *)
(***************************************************************************)
\* the location words of a header: every offset up to the sectors of the
\* model and one more, with the lengths 0, 1 and 2
Locations == {(offset * 256) + length : offset \in 0 .. (MaxSectors + 1),
                                        length \in 0 .. 2}

\* flows of two sectors or more, holding a header and sectors of zeros
HandedFlows ==
    {[EmptyFlow EXCEPT !.size = size, !.loc = loc] :
        size \in 2 .. MaxSectors, loc \in [Slots -> Locations]}

\* a file at the path and a byte stream that hold the same octets
InitOpen ==
    /\ opened = FALSE
    /\ path = "none"
    /\ toc = EmptyToc
    /\ free_sectors = {}
    /\ nb_sectors = 0
    /\ on_disk = TRUE
    /\ file \in HandedFlows
    /\ stream = file
    /\ last = NoCall
    /\ expect = [i \in Slots |-> None]
    /\ calls = NoCalls
    /\ nops = 0
    /\ metadata = blank_meta
    /\ header = zero_words
    /\ mcall = NoMetaCall
    /\ D = Dict(<<>>)
    /\ L = List(NoKind, <<>>)
    /\ concall = NoConCall
    /\ buffer = <<>>
    /\ held = NoTriple
    /\ origin = NoOrigin
    /\ codecall = NoCodecCall
    /\ box = NoBox
    /\ yielded = <<>>
    /\ NoScenario

NextOpen == open_file \/ open_stream \/ del

SpecOpen == InitOpen /\ [][NextOpen]_vars

(***************************************************************************)
(* Specification                                                           *)
(***************************************************************************)
\* int(time.time()): the clock is read once in a call and has advanced since
\* the call before
now == nops + 1

Save == \E index \in Slots, value \in Values : save_chunk(index, value, now)

Wipe == \E index \in Slots : wipe_chunk(index, now)

Next == open_file \/ open_stream \/ Save \/ Wipe \/ del

Spec == Init /\ [][Next]_vars

TypeOK ==
    /\ opened \in BOOLEAN
    /\ path \in {"none", "path"}
    /\ nb_sectors \in 0 .. MaxSectors
    /\ free_sectors \subseteq SectorIds
    /\ \A i \in Slots : toc[i].length \in 0 .. 255

(***************************************************************************)
(* Properties                                                              *)
(***************************************************************************)
Min(S) == CHOOSE x \in S : \A y \in S : x <= y

\* the step is a call of save_chunk that returned
SaveReturned == nops' = nops + 1 /\ last'.op = "save" /\ last'.ok

\* the step is a call of save_chunk that raised
SaveRaised == nops' = nops + 1 /\ last'.op = "save" /\ ~last'.ok

\* the step is a call of wipe_chunk
WipeCalled == nops' = nops + 1 /\ last'.op = "wipe"

\* the slot is populated
populated(t, i) == t[i].length # 0

\* C1: load_chunk(k) returns, for every index k, the value of the most recent
\* save_chunk(k, .) that returned, or None when the last call on k was
\* wipe_chunk or nothing was ever saved in k; calls on other indexes do not
\* change it.
C1_LoadReturnsLastSaved ==
    opened => \A k \in Slots : load_chunk(k) = expect[k]

\* C2: after a save_chunk(i, v) that returned, the sectors recorded for slot i
\* are disjoint from the sectors of every other populated slot.
C2_SavedRangeDisjoint ==
    (opened /\ last.op = "save" /\ last.ok) =>
        \A j \in Slots \ {last.index} :
            populated(toc, j) =>
                used_sectors(toc[last.index]) \cap used_sectors(toc[j]) = {}

\* C3: save_chunk places the payload at the lowest offset that starts a run of
\* needed free sectors (the slot's own sectors counting as free), and appends
\* at the sector count, growing it by needed, only when there is no such run.
C3_LowestFit ==
    [][SaveReturned =>
        LET i == last'.index
            needed == nb_of_needed_sectors(compressed_length(last'.value))
            runs == candidates(free_used_sectors(free_sectors, toc[i]), needed)
        IN  IF runs # {}
            THEN toc'[i].offset = Min(runs) /\ nb_sectors' = nb_sectors
            ELSE toc'[i].offset = nb_sectors
                 /\ nb_sectors' = nb_sectors + needed]_vars

\* the step rewrites a populated slot with a payload that needs as many
\* sectors as the slot occupies
SameSizeRewrite ==
    /\ SaveReturned
    /\ populated(toc, last'.index)
    /\ nb_of_needed_sectors(compressed_length(last'.value)) = toc[last'.index].length

\* on a fresh store, two one-sector saves to slot 0 have been made
TwoSavesOnFreshStore ==
    /\ nops = 3 /\ opened /\ last.op = "save" /\ last.ok /\ last.index = 0
    /\ last.old.length = 1
    /\ nb_of_needed_sectors(compressed_length(last.value)) = 1

\* C4 as stated: a rewrite with a payload of the same number of sectors keeps
\* the old offset of the slot and the file does not grow.
C4_KeepsOldOffset ==
    [][SameSizeRewrite =>
        /\ toc'[last'.index].offset = toc[last'.index].offset
        /\ nb_sectors' = nb_sectors]_vars

\* C4 as amended: a rewrite with a payload of the same number of sectors does
\* not grow the file and places the slot on a run that is free once the old
\* sectors of the slot are released, the old offset when that is the only
\* run; on a fresh store two one-sector saves to slot 0 leave a file of 3
\* sectors with slot 0 at sector 2.
C4_RewriteDoesNotGrow ==
    /\ [][SameSizeRewrite =>
            LET i == last'.index
                runs == candidates(free_used_sectors(free_sectors, toc[i]),
                                   toc[i].length)
            IN  /\ nb_sectors' = nb_sectors
                /\ toc'[i].length = toc[i].length
                /\ toc'[i].offset \in runs
                /\ toc[i].offset \in runs
                /\ (runs = {toc[i].offset} => toc'[i].offset = toc[i].offset)]_vars
    /\ [](TwoSavesOnFreshStore =>
            nb_sectors = 3 /\ flow.size = 3 /\ toc[0].offset = 2)

\* a same-size rewrite has moved the slot to another free run
C4_Witness ==
    /\ opened /\ last.op = "save" /\ last.ok
    /\ last.old.length # 0
    /\ toc[last.index].length = last.old.length
    /\ toc[last.index].offset # last.old.offset

\* the step is a call of save_chunk with a payload that needs 256 sectors or more
TooLargeSaved ==
    /\ nops' = nops + 1 /\ last'.op = "save"
    /\ encodable(last'.value)
    /\ nb_of_needed_sectors(compressed_length(last'.value)) >= 256

\* C5: a save_chunk(i, v) whose payload needs more than 255 sectors fails and
\* leaves the offset, length and timestamp of slot i, in memory and in the two
\* header words of the flow, as they were before the call.
C5_TooLargeLeavesMetadata ==
    [][TooLargeSaved =>
        LET i == last'.index
        IN  /\ ~last'.ok
            /\ toc'[i] = toc[i]
            /\ flow'.loc[i] = flow.loc[i]
            /\ flow'.ts[i] = flow.ts[i]]_vars

\* a save of a payload of 256 sectors has failed on a populated slot
C5_Witness ==
    /\ opened /\ last.op = "save" /\ ~last.ok /\ last.err = "AssertionError"
    /\ nb_of_needed_sectors(compressed_length(last.value)) = 256
    /\ last.old.length # 0
    /\ toc[last.index] = last.old

\* C6: wipe_chunk(i) on a populated slot adds the sectors of the slot, and
\* nothing else, to the free set, sets the length of the slot to 0 and keeps
\* its offset, writes the location and timestamp words of the slot to the
\* header, and leaves the other slots and the sector count as they were; the
\* slot is empty afterwards.
C6_WipeFreesSlot ==
    [][(WipeCalled /\ populated(toc, last'.index)) =>
        LET i == last'.index
        IN  /\ free_sectors' = free_sectors \cup used_sectors(toc[i])
            /\ toc'[i].length = 0
            /\ toc'[i].offset = toc[i].offset
            /\ flow'.loc[i] = location(toc'[i])
            /\ flow'.ts[i] = toc'[i].timestamp
            /\ \A j \in Slots \ {i} : toc'[j] = toc[j]
            /\ nb_sectors' = nb_sectors
            /\ load_from(toc', flow', i) = None]_vars

\* a populated slot has been wiped and keeps its offset
C6_Witness ==
    /\ opened /\ last.op = "wipe" /\ last.old.length # 0
    /\ toc[last.index].length = 0
    /\ toc[last.index].offset = last.old.offset
    /\ toc[last.index].offset >= 2

\* C7: wipe_chunk(i) on an empty slot changes nothing: not the metadata of the
\* slot, its timestamp included, not the free set, not the sector count, not
\* the flow.
C7_WipeEmptyIsNoOp ==
    [][(WipeCalled /\ ~populated(toc, last'.index)) =>
        /\ toc' = toc
        /\ free_sectors' = free_sectors
        /\ nb_sectors' = nb_sectors
        /\ file' = file
        /\ stream' = stream]_vars

\* an empty slot has been wiped, one never saved or one wiped before
C7_Witness ==
    /\ opened /\ last.op = "wipe" /\ last.old.length = 0
    /\ toc[last.index] = last.old
    /\ \E i \in Slots : populated(toc, i)

\* the step is the destruction of the store
DelCalled == nops' = nops + 1 /\ last'.op = "del"

\* C8: the file is removed when a store is destroyed that was opened by path
\* and has no populated slot; a store with a populated slot, or opened on a
\* byte stream, leaves the file as it is, and no other call removes the file.
C8_UnlinkOnlyWhenEmptied ==
    [][IF DelCalled
       THEN IF path = "path" /\ \A i \in Slots : toc[i].length = 0
            THEN ~on_disk'
            ELSE on_disk' = on_disk /\ file' = file
       ELSE on_disk => on_disk']_vars

\* a store opened by path was destroyed after the wipe of its slots, and the
\* file is gone
C8_Witness ==
    /\ ~opened /\ last.op = "del" /\ path = "path" /\ ~on_disk
    /\ \E i \in Slots : calls[i] = "wiped"
    /\ \A i \in Slots : calls[i] \in {"wiped", "none"}

\* a store opened on a byte stream, with no populated slot, was destroyed and
\* the file is still there
C8_WitnessStream ==
    /\ ~opened /\ last.op = "del" /\ path = "none" /\ on_disk

\* C9: with a populated slot, closing a store opened by path and opening the
\* path again gives the same indexes, the same offset and length for every
\* populated slot, the same free sectors and the same load_chunk results: the
\* header of the file equals the metadata in memory.
C9_ReopenYieldsSameStore ==
    (opened /\ path = "path" /\ \E i \in Slots : populated(toc, i)) =>
        LET r == init_store(file)
        IN  /\ r.ok
            /\ indexes_from(r.toc, 0) = indexes
            /\ \A i \in Slots :
                   populated(toc, i) =>
                       /\ r.toc[i].offset = toc[i].offset
                       /\ r.toc[i].length = toc[i].length
            /\ r.free = free_sectors
            /\ \A k \in Slots : load_from(r.toc, r.flow, k) = load_chunk(k)
            /\ \A i \in Slots :
                   /\ file.loc[i] = location(toc[i])
                   /\ file.ts[i] = toc[i].timestamp

\* the indexes are in strictly ascending order
Ascending(seq) == \A m, n \in 1 .. Len(seq) : m < n => seq[m] < seq[n]

Range(seq) == {seq[n] : n \in 1 .. Len(seq)}

\* C10 as stated: indexes() yields in ascending order the indexes whose last
\* save_chunk / wipe_chunk call was a save_chunk that returned (or, with no
\* call, whose header word had a length when the store was opened).
C10_IndexesLastCallSaved ==
    opened =>
        /\ Ascending(indexes)
        /\ Range(indexes) =
               {i \in Slots : \/ calls[i] = "saved"
                              \/ calls[i] = "none" /\ expect[i] # None}

\* C10 as amended: indexes() yields in strictly ascending order exactly the
\* indexes whose slot has a length: those whose last save_chunk / wipe_chunk
\* call that did not raise was a save_chunk (or, with no such call, whose
\* header word had a length when the store was opened); a new store yields
\* nothing.
C10_IndexesLastReturnedSave ==
    opened =>
        /\ Ascending(indexes)
        /\ Range(indexes) = {i \in Slots : toc[i].length # 0}
        /\ Range(indexes) = {i \in Slots : expect[i] # None}
        /\ (nops = 1 => indexes = <<>>)

\* the last save of a populated slot raised and the slot is still yielded,
\* after a lower index was saved later than a higher one
C10_Witness ==
    /\ opened
    /\ \E i \in Slots : calls[i] = "failed" /\ i \in Range(indexes)
    /\ Len(indexes) = 2
    /\ toc[0].timestamp > toc[1].timestamp

(***************************************************************************)
(* Properties of Metadata and of the header words                          *)
(***************************************************************************)
\* the step is a call of _write_meta
WriteMetaCalled == mcall'.op = "_write_meta" /\ UNCHANGED metadata

\* the offset of the Metadata object is in [2, 2^24)
OffsetInRange ==
    below_power(metadata.offset, 3) /\ metadata.offset \notin {int(0), int(1)}

\* C11: for every offset in [2, 2^24) and length in [0, 2^8), _write_meta
\* writes the location word (offset << 8) | length to header sector 0, and the
\* word read back at open is decoded by Metadata to the same offset and
\* length; a setter of offset, length or timestamp changes that field only.
C11_LocationRoundTrip ==
    /\ [][(WriteMetaCalled /\ OffsetInRange) =>
            LET r == Metadata_init(read_int(header'.loc), int(0))
            IN  /\ header'.loc = low_octets(location_word(metadata), 4)
                /\ r.ok
                /\ r.meta.offset = metadata.offset
                /\ r.meta.length = metadata.length]_vars
    /\ [][(mcall'.op = "offset") =>
            /\ metadata'.length = metadata.length
            /\ metadata'.timestamp = metadata.timestamp]_vars
    /\ [][(mcall'.op = "length") =>
            /\ metadata'.offset = metadata.offset
            /\ metadata'.timestamp = metadata.timestamp]_vars
    /\ [][(mcall'.op = "timestamp") =>
            /\ metadata'.offset = metadata.offset
            /\ metadata'.length = metadata.length]_vars

(***************************************************************************)
(* Properties of the codec                                                 *)
(***************************************************************************)
\* C12: for every well-formed flow holding one named tag, Writer.save of
\* the triple that Reader.load returned writes exactly the octets of the flow.
C12_ReadWriteIdentity ==
    (origin.class = "well-formed" /\ codecall.op = "save") =>
        codecall.ok /\ buffer = origin.octets

\* C13: for every triple handed to Writer.save, Reader.load of the octets
\* written returns a triple equal to it: same kinds of the keys and of the
\* Lists, an empty List of no kind still of no kind, same items, same order.
C13_WriteReadIdentity ==
    (origin.class = "triple" /\ codecall.op = "load") =>
        codecall.ok /\ held = origin.held

\* the inner lists of a List of Lists that hold an item
Filled(value) == {i \in 1 .. Len(value.items) : value.items[i].items # <<>>}

\* the inner lists of a List of Lists that have a kind
Kinded(value) == {i \in 1 .. Len(value.items) : value.items[i].kind # NoKind}

\* the inner tag for a List of Lists, the inner lists at the indexes of `among`
\* being the ones that are not empty: BYTE_ARRAY when there is none, or when
\* all are of kind BYTE, INT_ARRAY when all are of kind INT, LIST otherwise
InnerTag(value, among) ==
    IF among = {} THEN TAG_BYTE_ARRAY
    ELSE IF \A i \in among : value.items[i].kind = TAG_BYTE THEN TAG_BYTE_ARRAY
    ELSE IF \A i \in among : value.items[i].kind = TAG_INT THEN TAG_INT_ARRAY
    ELSE TAG_LIST

\* a List of Lists with one inner list at least was handed to Writer.save,
\* which has returned
ListOfListsSaved ==
    /\ origin.class = "triple"
    /\ origin.held.kind = TAG_LIST
    /\ origin.held.value.kind = TAG_LIST
    /\ origin.held.value.items # <<>>
    /\ codecall.op = "save"
    /\ codecall.ok

\* the inner tag on the flow: after the tag and the empty name
InnerTagWritten == buffer[4]

\* C14: when a List of Lists is written, the inner tag is BYTE_ARRAY when
\* all inner lists are empty, BYTE_ARRAY when the inner lists that are not
\* empty are all of kind BYTE, INT_ARRAY when they are all of kind INT, and
\* LIST otherwise; an empty inner list being one that holds no item, or one
\* that has no kind.
C14_InnerTagOfListOfLists ==
    ListOfListsSaved =>
        LET value == origin.held.value
        IN  \/ InnerTagWritten = InnerTag(value, Filled(value))
            \/ InnerTagWritten = InnerTag(value, Kinded(value))

(***************************************************************************)
(* Properties of Dict                                                      *)
(***************************************************************************)
RECURSIVE WireKeys(_, _)
\* the names of the named tags of a COMPOUND payload, from position p of the
\* octets b up to the END octet, in the order of the flow
WireKeys(b, p) ==
    LET name == read_string(b, p + 1)
        payload == readers(b[p], b, name.p)
    IN  IF b[p] = TAG_NONE THEN <<>>
        ELSE <<name.v>> \o WireKeys(b, payload.p)

\* Writer._save_dict writes the Dict d without an error
Writable(d) == save_dict(d, 1).ok

\* __setitem__ or set_kind has been called in the step
Assigned == concall'.op \in {"setitem", "set_kind"}

\* C15: a Dict iterates its keys in the order of their first insertion, a
\* call of __setitem__ or set_kind on a key it has does not move the key and
\* a new key comes last; a Dict is written as one named tag for each key in
\* that order, then one END octet, and read back with its keys in that order.
C15_KeyOrder ==
    /\ [][Assigned =>
            keys(D') = IF has_key(D, concall'.key) \/ ~concall'.ok THEN keys(D)
                       ELSE Append(keys(D), concall'.key)]_vars
    /\ [](Writable(D) =>
            LET out == save_dict(D, 1).out
                back == load_dict(out, 1, Dict(<<>>))
            IN  /\ WireKeys(out, 1) = keys(D)
                /\ out[Len(out)] = TAG_NONE
                /\ back.ok /\ back.p = Len(out) + 1
                /\ keys(back.v) = keys(D))

\* a Dict of two keys has had its first key assigned again or declared again,
\* and is written
C15_Witness ==
    /\ Len(D.pairs) = 2
    /\ concall.op \in {"setitem", "set_kind"}
    /\ concall.ok
    /\ concall.key = D.pairs[1].key
    /\ D.pairs[1].kind # TAG_LONG
    /\ Writable(D)

\* the pair of the key in the Dict d
pair_of(d, key) == d.pairs[place(d, key)]

\* C16: Dict.set_kind(key, kind) with a kind that is none of the nine valid
\* ones fails and leaves the Dict as it was; with a key the Dict has not, it
\* puts the key last with the kind and the default value of the kind (0, 0.0,
\* the empty string, an empty List, an empty Dict); with a key whose value the
\* kind does not accept, it fails and leaves the Dict as it was; with a key
\* whose value the kind accepts, it changes the kind of the key only.
C16_SetKind ==
    [][(concall'.op = "set_kind") =>
        LET key == concall'.key
            kind == concall'.kind
        IN  IF kind \notin {TAG_BYTE, TAG_SHORT, TAG_INT, TAG_LONG, TAG_FLOAT,
                            TAG_DOUBLE, TAG_STRING, TAG_LIST, TAG_COMPOUND}
            THEN ~concall'.ok /\ D' = D
            ELSE IF ~has_key(D, key)
            THEN /\ concall'.ok
                 /\ D'.pairs =
                        Append(D.pairs,
                               [key |-> key, kind |-> kind,
                                item |->
                                    CASE kind \in {TAG_BYTE, TAG_SHORT,
                                                   TAG_INT, TAG_LONG} ->
                                             IntValue(int(0))
                                      [] kind \in {TAG_FLOAT, TAG_DOUBLE} ->
                                             FloatValue("0.0")
                                      [] kind = TAG_STRING -> StrValue(<<>>)
                                      [] kind = TAG_LIST -> List(NoKind, <<>>)
                                      [] kind = TAG_COMPOUND -> Dict(<<>>)])
            ELSE IF ~is_accepted(kind, pair_of(D, key).item).result
            THEN ~concall'.ok /\ D' = D
            ELSE /\ concall'.ok
                 /\ D'.pairs = [D.pairs EXCEPT ![place(D, key)].kind = kind]]_vars

\* set_kind has failed on a key whose value the kind does not accept
C16_Witness ==
    /\ concall.op = "set_kind"
    /\ ~concall.ok
    /\ concall.kind \in VALID_TAGS
    /\ has_key(D, concall.key)
    /\ ~is_accepted(concall.kind, pair_of(D, concall.key).item).result

\* the octets of the integers of a kind
width(kind) ==
    CASE kind = TAG_BYTE -> 1
      [] kind = TAG_SHORT -> 2
      [] kind = TAG_INT -> 4
      [] kind = TAG_LONG -> 8

\* C17: Dict.__setitem__(key, value) on a key the Dict has returns when the
\* kind of the key accepts the value (an integer: when it is within the bits
\* of the kind) and then changes the value of the key only; otherwise it
\* raises and leaves the Dict as it was.  On a key the Dict has not, it puts
\* the key last with the value, and the kind LONG for an integer, DOUBLE for
\* a float, STRING for a text, LIST for a List, COMPOUND for a Dict.
C17_SetItem ==
    [][(concall'.op = "setitem") =>
        LET key == concall'.key
            value == concall'.value
        IN  IF has_key(D, key)
            THEN LET kind == pair_of(D, key).kind
                 IN  /\ concall'.ok = is_accepted(kind, value).result
                     /\ (value.t = "int"
                            /\ kind \in {TAG_BYTE, TAG_SHORT, TAG_INT, TAG_LONG}) =>
                            concall'.ok = fits(value.v, width(kind))
                     /\ D'.pairs = IF concall'.ok
                                   THEN [D.pairs EXCEPT ![place(D, key)].item = value]
                                   ELSE D.pairs
            ELSE /\ concall'.ok
                 /\ D'.pairs =
                        Append(D.pairs,
                               [key |-> key, item |-> value,
                                kind |-> CASE value.t = "int" -> TAG_LONG
                                           [] value.t = "float" -> TAG_DOUBLE
                                           [] value.t = "str" -> TAG_STRING
                                           [] value.t = "List" -> TAG_LIST
                                           [] value.t = "Dict" -> TAG_COMPOUND])]_vars

\* 200 was assigned to a key of kind BYTE, and the call has raised
C17_Witness ==
    /\ concall.op = "setitem"
    /\ ~concall.ok
    /\ concall.value = IntValue(int(200))
    /\ has_key(D, concall.key)
    /\ pair_of(D, concall.key).kind = TAG_BYTE

(***************************************************************************)
(* Properties of List                                                      *)
(***************************************************************************)
\* the items of the List after the call has put the value at the key
WithItem ==
    SubSeq(L.items, 1, concall'.key[1]) \o <<concall'.value>>
        \o SubSeq(L.items, concall'.key[1] + 1, Len(L.items))

\* the kind that an empty List of no kind takes from the value of the call
KindOfValue ==
    CASE concall'.value.t = "int" -> TAG_LONG
      [] concall'.value.t = "float" -> TAG_DOUBLE
      [] concall'.value.t = "str" -> TAG_STRING
      [] concall'.value.t = "List" -> TAG_LIST
      [] concall'.value.t = "Dict" -> TAG_COMPOUND

\* the call has returned and the List has the value at the key, and the kind
Inserted(kind) == concall'.ok /\ L' = List(kind, WithItem)

\* the call has raised and the List has the items it had
Rejected == ~concall'.ok /\ L'.items = L.items

\* List.insert on a List that has a kind: the value is inserted when the kind
\* accepts it, and the call raises otherwise
InsertIntoKinded ==
    (concall'.op = "insert" /\ L.kind # NoKind) =>
        IF is_accepted(L.kind, concall'.value).result THEN Inserted(L.kind)
        ELSE Rejected

\* List.set_kind(kind) returns when the List is empty or the kind accepts
\* every item, and sets the kind only; otherwise it raises and leaves the
\* List as it was
SetKindOfList ==
    (concall'.op = "set_kind") =>
        IF \A n \in 1 .. Len(L.items) :
               is_accepted(concall'.kind, L.items[n]).result
        THEN concall'.ok /\ L' = List(concall'.kind, L.items)
        ELSE ~concall'.ok /\ L' = L

\* C18: List.insert on an empty List of no kind sets the kind to the default
\* kind of the value and inserts the value; on a List that has a kind, the
\* value is inserted when the kind accepts it and the call raises otherwise;
\* set_kind returns when the List is empty or the kind accepts every item,
\* and otherwise raises and leaves the kind.
C18_InsertAlwaysIntoUnknown ==
    [][/\ (concall'.op = "insert" /\ L.kind = NoKind) => Inserted(KindOfValue)
       /\ InsertIntoKinded
       /\ SetKindOfList]_vars

\* C18, amended: List.insert on an empty List of no kind inserts the value
\* and sets the kind to the default kind of the value when that kind accepts
\* the value, and raises without inserting otherwise (an integer outside 64
\* bits); the rest as above.
C18_InsertIntoUnknown ==
    [][/\ (concall'.op = "insert" /\ L.kind = NoKind) =>
              IF is_accepted(KindOfValue, concall'.value).result
              THEN Inserted(KindOfValue)
              ELSE Rejected
       /\ InsertIntoKinded
       /\ SetKindOfList]_vars

\* 2^63 was appended to an empty List, and the call has raised
C18_Witness ==
    /\ concall.op = "insert"
    /\ ~concall.ok
    /\ concall.value = IntValue(unpack(<<0, 128, 0, 0, 0, 0, 0, 0, 0>>))
    /\ L.items = <<>>

(***************************************************************************)
(* Properties of Reader.load                                               *)
(***************************************************************************)
\* the second of the named tags of key "a" in a flow where the key comes
\* twice: the last named tag before the END octet of the COMPOUND
LastOccurrence ==
    CHOOSE e \in WirePairs :
        \E rest \in {<<>>} \cup {SubSeq(origin.octets, 1, n) :
                                    n \in 1 .. Len(origin.octets)} :
            origin.octets = rest \o Named(e.tag, <<97>>, e.payload) \o <<0>>

\* C19: reading a COMPOUND in which a key comes twice returns, whatever the
\* tags of the two named tags, a Dict with one entry for the key, of the kind
\* and the value of the second one.
C19_LastOccurrenceWins ==
    (origin.class = "duplicate" /\ codecall.op = "load") =>
        /\ codecall.ok
        /\ Len(SelectSeq(held.value.pairs, LAMBDA pair : pair.key = <<97>>)) = 1
        /\ LET last_one == Reader_load(Named(LastOccurrence.tag, <<97>>,
                                             LastOccurrence.payload), 1).v
           IN  /\ pair_of(held.value, <<97>>).kind = last_one.kind
               /\ pair_of(held.value, <<97>>).item = last_one.value

\* C20: Reader.load raises on a flow where an octet that is none of the
\* twelve tags 0 .. 11 stands as the kind of a named tag, of the flow or of a
\* COMPOUND, or as the inner tag of a LIST.
C20_UnknownTagFails ==
    (origin.class = "unknown tag" /\ codecall.op = "load") => ~codecall.ok

(***************************************************************************)
(* Properties of iterate                                                   *)
(***************************************************************************)
\* the positions of the box
Inside ==
    {<<x, y, z>> : x \in box.nid[1] .. box.but[1] - 1,
                   y \in box.nid[2] .. box.but[2] - 1,
                   z \in box.nid[3] .. box.but[3] - 1}

\* nid <= position < but along each axis
InBox(xyz) ==
    \A axis \in 1 .. 3 : box.nid[axis] <= xyz[axis] /\ xyz[axis] < box.but[axis]

\* the generator has nothing left to yield
Exhausted == Len(yielded) = Len(iterate(box.nid, box.but))

\* C21: iterate(nid, but) yields positions of the box only, none of them
\* twice, and when it stops it has yielded every position of the box: as
\* many positions as the volume of the box.
C21_IterateCoversBox ==
    /\ [][\A n \in Len(yielded) + 1 .. Len(yielded') :
            /\ InBox(yielded'[n])
            /\ \A m \in 1 .. n - 1 : yielded'[m] # yielded'[n]]_vars
    /\ [](Exhausted =>
            /\ LET seen == {yielded[n] : n \in 1 .. Len(yielded)}
               IN  Inside \subseteq seen
            /\ Len(yielded) = Cardinality(Inside))

\* the generator has stopped on a box over two regions and two chunks along
\* x, two chunks along y, with negative coordinates
C21_Witness ==
    /\ Exhausted
    /\ box.nid = <<510, -1, -2>>
    /\ box.but = <<510 + MaxSpan, -1 + MaxSpan, -2 + MaxSpan>>
    /\ Len(yielded) = MaxSpan * MaxSpan * MaxSpan

(***************************************************************************)
(* Properties of the free set                                              *)
(***************************************************************************)
\* the sectors of the populated slots
populated_sectors(t) ==
    UNION {used_sectors(t[i]) : i \in {j \in Slots : populated(t, j)}}

\* the free set is what the populated slots leave of the sectors after the
\* header, no populated slot reaches into the header, and no sector belongs
\* to two populated slots
Accounted(free, t, nb) ==
    /\ free = (2 .. (nb - 1)) \ populated_sectors(t)
    /\ free \cap {0, 1} = {}
    /\ populated_sectors(t) \cap {0, 1} = {}
    /\ \A i, j \in Slots :
          (i # j /\ populated(t, i) /\ populated(t, j)) =>
              used_sectors(t[i]) \cap used_sectors(t[j]) = {}

\* the step is an open that returned a store
OpenReturned == nops' = nops + 1 /\ last'.op = "open" /\ last'.ok

\* C22: a store that has just been opened has, as its free set, the sectors
\* 2 .. sector count - 1 minus the sectors of the populated slots, sectors 0
\* and 1 being neither free nor in a populated slot; every save_chunk and
\* wipe_chunk that returns keeps this and does not lower the sector count, so
\* that it holds after any sequence of calls that returned.
C22_FreeSetAccounted ==
    /\ [][OpenReturned => Accounted(free_sectors', toc', nb_sectors')]_vars
    /\ [][(Accounted(free_sectors, toc, nb_sectors)
            /\ (SaveReturned \/ WipeCalled)) =>
                /\ Accounted(free_sectors', toc', nb_sectors')
                /\ nb_sectors' >= nb_sectors]_vars

\* no call has failed: every slot was saved, the last save has left a sector
\* free before the end of the flow
C22_Witness ==
    /\ opened /\ last.op = "save" /\ last.ok
    /\ \A i \in Slots : calls[i] = "saved"
    /\ free_sectors # {}
    /\ toc[last.index].offset + toc[last.index].length < nb_sectors
    /\ Accounted(free_sectors, toc, nb_sectors)

\* C23: a save_chunk that raises leaves the free set as it was, and no sector
\* of a populated slot is in the free set afterwards.
C23_FailedSaveKeepsFreeSet ==
    [][(SaveRaised /\ Accounted(free_sectors, toc, nb_sectors)) =>
        /\ free_sectors' = free_sectors
        /\ free_sectors' \cap populated_sectors(toc') = {}]_vars

(***************************************************************************)
(* Properties of the timestamp word                                        *)
(***************************************************************************)
\* C24: _write_meta writes every timestamp the Metadata object holds, a value
\* of [0, 2^32), to header sector 1 as its four low octets, and the word read
\* back at open gives a Metadata of the same timestamp.
C24_TimestampRoundTrip ==
    [][(WriteMetaCalled /\ fits(location_word(metadata), 4)) =>
        LET r == Metadata_init(int(0), read_int(header'.ts))
        IN  /\ mcall'.ok
            /\ header'.ts = low_octets(metadata.timestamp, 4)
            /\ r.ok
            /\ r.meta.timestamp = metadata.timestamp]_vars

(***************************************************************************)
(* Invariants of the containers                                            *)
(***************************************************************************)
\* C25: whatever calls were made on the Dict, failed ones included, the kind
\* of every entry is one of the nine valid tags and the value of the entry
\* is accepted by the kind, an integer fitting the width of the kind.
C25_DictEntriesAccepted ==
    \A n \in 1 .. Len(D.pairs) :
        /\ D.pairs[n].kind \in VALID_TAGS
        /\ is_accepted(D.pairs[n].kind, D.pairs[n].item).result

\* C26: whatever calls were made on the List, failed ones included, the kind
\* of the List is either unknown, and then the List has no item, or one of the
\* nine valid tags, and then every item is accepted by the kind.
C26_ListKindAndItems ==
    IF L.kind = NoKind THEN L.items = <<>>
    ELSE /\ L.kind \in VALID_TAGS
         /\ \A n \in 1 .. Len(L.items) : is_accepted(L.kind, L.items[n]).result

\* the step is an insert of a value or an assignment to an item that raised
\* because the value is not accepted by the kind
ValueRejected ==
    /\ concall'.op \in {"insert", "setitem"}
    /\ ~concall'.ok
    /\ concall'.err = "ValueError"

\* C27: an append, insert or item assignment that raises because the value is
\* rejected leaves the items and the kind of the List as they were.
C27_RejectedLeavesList ==
    [][ValueRejected => L' = L]_vars

(***************************************************************************)
(* Properties of the counts and lengths on the wire                        *)
(***************************************************************************)
\* C28: Reader.load raises on a LIST whose count is negative, and on a byte
\* array or int array whose length is negative; no List is returned.
C28_NegativeCountFails ==
    (origin.class \in {"negative count", "negative length"}
        /\ codecall.op = "load") => ~codecall.ok

(***************************************************************************)
(* Properties of the strings of low.py                                     *)
(***************************************************************************)
\* C29: write_string of a str whose encoding has 0 to 65535 octets returns,
\* and read_string returns the str that stands at its place in the flow, be
\* the flow written by write_string or handed with the length of the str as
\* an unsigned 16-bit integer before its octets.
C29_StringRoundTrip ==
    /\ [][lowcall'.op = "write_string" => lowcall'.ok]_vars
    /\ [][lowcall'.op = "read_string" =>
            /\ lowcall'.ok
            /\ values' = SubSeq(steps, 1, lowcall'.n)]_vars

(***************************************************************************)
(* Properties of open on a header                                          *)
(***************************************************************************)
\* the sectors that the header of the flow f gives to slot i
header_sectors(f, i) == used_sectors(Metadata(f.loc[i], f.ts[i]))

\* two populated slots of the header share a sector
Overlapping(f) ==
    \E i, j \in Slots : i # j /\ header_sectors(f, i) \cap header_sectors(f, j) # {}

\* a populated slot of the header holds sector 0 or sector 1
InHeader(f) == \E i \in Slots : header_sectors(f, i) \cap {0, 1} # {}

\* a populated slot of the header holds a sector past the end of the flow
PastEnd(f) == \E i \in Slots : \E s \in header_sectors(f, i) : s >= f.size

\* the step is an open that raised
OpenRaised == nops' = nops + 1 /\ last'.op = "open" /\ ~last'.ok

\* C30: open yields no store on a flow whose header gives a sector to two
\* populated slots, or gives a populated slot sector 0, sector 1 or a sector
\* past the end of the flow: a store that open has yielded stands on a flow
\* with none of these, and an open that raised leaves no store.
C30_InconsistentHeaderFails ==
    /\ [][OpenReturned =>
            /\ ~Overlapping(flow')
            /\ ~InHeader(flow')
            /\ ~PastEnd(flow')]_vars
    /\ [][OpenRaised => ~opened']_vars

\* open has raised on a flow whose populated slots share a sector, none of
\* them holding a sector of the header or past the end
C30_Witness ==
    /\ ~opened /\ last.op = "open" /\ ~last.ok
    /\ Overlapping(stream) /\ ~InHeader(stream) /\ ~PastEnd(stream)

\* open has raised on a flow with a populated slot on sector 1
C30_WitnessHeader ==
    /\ ~opened /\ last.op = "open" /\ ~last.ok
    /\ InHeader(stream) /\ ~Overlapping(stream) /\ ~PastEnd(stream)

\* open has raised on a flow with a populated slot past its end
C30_WitnessPastEnd ==
    /\ ~opened /\ last.op = "open" /\ ~last.ok
    /\ PastEnd(stream) /\ ~Overlapping(stream) /\ ~InHeader(stream)

=============================================================================
